---- MODULE Spec2Model ----
(***************************************************************************)
(* Model of my-cli-prettier's MCP transport/session layer and of its tool  *)
(* catalog cache.                                                          *)
(*                                                                         *)
(*   Spec       one McpClientSession and the IMcpClient it owns (a         *)
(*              StdioMcpClient or an HttpMcpClient): withConnection and    *)
(*              the client's connect / close / listTools / callTool.       *)
(*   CacheSpec  config/cache.ts over a directory of cache files.           *)
(*   RaceSpec   getCachedTools and setCachedTools of several processes on  *)
(*              one cache file, interleaved at every file-system call.     *)
(*   LoadSpec   the commands of a CLI process: loadTools of the server     *)
(*              commands, execute of the tool commands, buildCommands.     *)
(*   SchemaSpec toolToOptionSchema and parseOptionValues over the input    *)
(*              schemas and raw option values of a tool command.           *)
(*   ResultSpec the client's callTool and the tool command's execute over  *)
(*              the results a server can answer a call with.               *)
(*   FactorySpec createMcpClient over the server configurations a config   *)
(*              file can hold.                                             *)
(*   ConfigSpec the server add and remove commands over the configuration  *)
(*              and the cache directory.                                   *)
(*                                                                         *)
(* Text (error messages, file names) is a sequence of one-character        *)
(* strings, so that String.includes and String.replace are computed.       *)
(*                                                                         *)
(* The protocol library, the servers and the network are the environment:  *)
(* every awaited library call resolves or rejects by a choice made in the  *)
(* action.  File-system calls on the cache directory succeed; the time     *)
(* unit is arbitrary and the clock starts far past any TTL.                *)
(***************************************************************************)
EXTENDS Integers, Sequences, FiniteSets, TLC

VARIABLES
    \* ---- the client object (StdioMcpClient / HttpMcpClient) ----
    kind,        \* which class createMcpClient constructed: "stdio" | "http"
    config,      \* the resolved server configuration the client was built from
    connected,   \* private connected
    transport,   \* private transport: 0 is null, else an index into transports
    \* ---- the world outside the client ----
    transports,  \* every transport object constructed so far, in order
    phase,       \* what has happened to the client: fresh / connected / connectFailed / closed
    lastCall,    \* the last client method invocation and what it did
    \* ---- McpClientSession.withConnection ----
    pc,          \* position of the (single) caller inside withConnection
    wcOp,        \* the operation passed to withConnection
    wcFirst,     \* Len(transports) when the current withConnection call began
    log,         \* invocations made by the current withConnection call, in order
    pending,     \* completion of the try block (what finally will re-raise or return)
    outcome,     \* what withConnection returned or threw to its caller
    calls,       \* withConnection calls started so far
    \* ---- config/cache.ts ----
    files,       \* the cache directory: file name -> file content
    now,         \* Date.now()
    settings,    \* getSettings(): cacheEnabled, cacheTtlMs
    lastCache,   \* the cache query that has just returned (none after any other step)
    written,     \* the put being followed: which server, what it stored, and when
    writes,      \* cache files written so far (by put or from outside)
    \* ---- two more processes on one server's cache file ----
    rpc,         \* position of a getCachedTools call that another process can interleave
    rread,       \* what its readFileSync returned (Unread before, NoFile if the file was gone)
    rres,        \* what the call returned, and whether it raised
    wpc,         \* position of a setCachedTools call inside writeFileSync
    wdata,       \* the JSON text that writeFileSync is writing
    wlinked,     \* the file being written is still the directory's entry (not unlinked)
    lastPut,     \* the entry written by the setCachedTools call that finished last
    \* ---- the commands of one CLI process ----
    commands,    \* DynamicServerCommand per server: toolsLoaded, subCommands (tool names)
    lpc,         \* position inside the command method that is running
    lop,         \* which method: "loadTools" | "execute" ("none" when idle)
    lsrv,        \* the server of the command that is running
    lres,        \* what the method returned, or that it raised
    lsessions,   \* McpClientSession objects the running method has created
    logged,      \* the servers that logger.error calls of the process have named, in order
    loads,       \* command methods started so far
    \* ---- one tool command: its option schema and one execute ----
    tool,          \* tool.inputSchema as the server declared it
    optionSchema,  \* toolToOptionSchema(tool), kept by the command
    values,        \* the raw option values handed to execute
    args,          \* parseOptionValues(values, optionSchema)
    spc,           \* position of the tool command: construction, then inside execute
    response,      \* what the protocol library's callTool resolved with, or that it rejected
    callResult,    \* the McpToolResult that the client's callTool built from it
    commandResult, \* the CommandResult that execute returned
    \* ---- createMcpClient ----
    endpoint,      \* the ServerConfig handed to createMcpClient
    created,       \* what createMcpClient returned, or that it threw
    fpc,           \* whether createMcpClient has been called
    \* ---- the configuration file ----
    configured,    \* the names of config.servers
    removal        \* what the last server remove command returned

clientVars == <<kind, config, connected, transport, transports, phase, lastCall>>
wcVars == <<pc, wcOp, wcFirst, log, pending, outcome, calls>>
cacheVars == <<files, now, settings, lastCache, written, writes>>
raceVars == <<rpc, rread, rres, wpc, wdata, wlinked, lastPut>>
loadVars == <<commands, lpc, lop, lsrv, lres, lsessions, logged, loads>>
schemaVars == <<tool, optionSchema, values, args, spc>>
resultVars == <<response, callResult, commandResult>>
factoryVars == <<endpoint, created, fpc>>
configVars == <<configured, removal>>
vars ==
    <<clientVars, wcVars, cacheVars, raceVars, loadVars, schemaVars, resultVars,
      factoryVars, configVars>>

----------------------------------------------------------------------------
\* Bounds of the model.

\* transport objects constructed in one behaviour
MaxTransports == 3
\* withConnection calls in one behaviour
MaxCalls == 2
\* Date.now() when the behaviour begins (the clock is far past any TTL)
Epoch == 3
\* how far the clock advances in one behaviour
MaxTicks == 2
\* cache files written in one behaviour
MaxWrites == 2
\* command methods (loadTools, execute) started in one behaviour
MaxLoads == 2
\* content items in one answer of a server to a call
MaxItems == 2

----------------------------------------------------------------------------
\* Text.

Includes(s, pat) ==
    \E i \in 0..(Len(s) - Len(pat)) :
        \A j \in 1..Len(pat) : s[i + j] = pat[j]

DigitChar(d) ==
    CASE d = 0 -> "0" [] d = 1 -> "1" [] d = 2 -> "2" [] d = 3 -> "3" [] d = 4 -> "4"
      [] d = 5 -> "5" [] d = 6 -> "6" [] d = 7 -> "7" [] d = 8 -> "8" [] d = 9 -> "9"

RECURSIVE NumberText(_)
NumberText(n) ==
    IF n < 10 THEN <<DigitChar(n)>>
    ELSE NumberText(n \div 10) \o <<DigitChar(n % 10)>>

MsgNotConnected ==
    <<"C", "l", "i", "e", "n", "t", " ", "i", "s", " ", "n", "o", "t", " ",
      "c", "o", "n", "n", "e", "c", "t", "e", "d">>

MsgBothPrefix ==
    <<"F", "a", "i", "l", "e", "d", " ", "t", "o", " ", "c", "o", "n", "n", "e", "c", "t",
      " ", "w", "i", "t", "h", " ", "b", "o", "t", "h", " ", "S", "t", "r", "e", "a", "m",
      "a", "b", "l", "e", " ", "H", "T", "T", "P", " ", "a", "n", "d", " ", "S", "S", "E",
      ":", " ">>

MsgHttp == <<"H", "T", "T", "P", " ">>
MsgRefused == <<"E", "C", "O", "N", "N", "R", "E", "F", "U", "S", "E", "D", " ", ":">>
MsgSpawn == <<"s", "p", "a", "w", "n", " ", "E", "N", "O", "E", "N", "T">>
MsgAborted == <<"a", "b", "o", "r", "t", "e", "d">>
MsgTimedOut == <<"r", "e", "q", "u", "e", "s", "t", " ", "t", "i", "m", "e", "d", " ", "o", "u", "t">>
MsgCloseFailed == <<"c", "l", "o", "s", "e", " ", "f", "a", "i", "l", "e", "d">>

----------------------------------------------------------------------------
\* Thrown values and completions.

\* a thrown value: an Error object (isError) with its message, or any other
\* value with its String() rendering
Thrown(isErr, msg) == [isError |-> isErr, message |-> msg]
NoError == Thrown(FALSE, <<>>)

Returned(v) == [threw |-> FALSE, error |-> NoError, value |-> v]
Threw(e) == [threw |-> TRUE, error |-> e, value |-> "none"]
NoCompletion == [threw |-> FALSE, error |-> NoError, value |-> "none"]

----------------------------------------------------------------------------
\* What the server and the network can do to a connection attempt.

Cause(k, s) == [kind |-> k, status |-> s]
CauseOk == Cause("ok", 0)
HttpStatuses == {404, 405, 504}
HttpCauses ==
    {CauseOk, Cause("refused", 0), Cause("value", 0)}
        \cup {Cause("http", s) : s \in HttpStatuses}
StdioCauses == {CauseOk, Cause("spawn", 0), Cause("value", 0)}

\* a client-side rejection: the server answered the attempt with a 4xx status
IsClientSideRejection(cause) ==
    cause.kind = "http" /\ cause.status >= 400 /\ cause.status <= 499

\* the value client.connect(transport) rejects with: an Error whose message
\* carries the HTTP status or the refused address, or a value that is no Error
ErrorOf(cause, cfg) ==
    CASE cause.kind = "http" -> Thrown(TRUE, MsgHttp \o NumberText(cause.status))
      [] cause.kind = "refused" -> Thrown(TRUE, MsgRefused \o NumberText(cfg.port))
      [] cause.kind = "spawn" -> Thrown(TRUE, MsgSpawn)
      [] cause.kind = "value" -> Thrown(FALSE, MsgAborted)
      [] OTHER -> NoError

HttpConfigs == {[port |-> 3000, headers |-> "none"], [port |-> 4000, headers |-> "auth"]}
StdioConfig == [port |-> 0, headers |-> "none"]

----------------------------------------------------------------------------
\* Transport objects.

NewTransport(type, cfg) ==
    [type |-> type, port |-> cfg.port, headers |-> cfg.headers, closeCalls |-> 0]

\* transport.close() invoked on transports[id]
CloseInvoked(ts, id) ==
    [ts EXCEPT ![id].closeCalls = @ + 1]

\* client.connect(t) rejected: the protocol library may or may not have closed t
AfterFailedHandshake(t, libCloses) ==
    IF libCloses THEN [t EXCEPT !.closeCalls = @ + 1] ELSE t

----------------------------------------------------------------------------
\* StdioMcpClient.connect

AlreadyConnectedNever == FALSE

\* if (this.connected) { return; }  (the first statement of both connect methods)
AlreadyConnected == connected

StdioConnectResult(env) ==
    IF AlreadyConnected
    THEN [connected |-> connected, transport |-> transport, transports |-> transports,
          completion |-> Returned("void"), made |-> <<>>, causes |-> <<>>]
    ELSE LET id == Len(transports) + 1
             t == NewTransport("stdio", config)
         IN  IF env.modern = CauseOk
             THEN [connected |-> TRUE, transport |-> id,
                   transports |-> Append(transports, t),
                   completion |-> Returned("void"),
                   made |-> <<id>>, causes |-> <<env.modern>>]
             ELSE [connected |-> connected, transport |-> id,
                   transports |-> Append(transports, AfterFailedHandshake(t, env.lib1)),
                   completion |-> Threw(ErrorOf(env.modern, config)),
                   made |-> <<id>>, causes |-> <<env.modern>>]

----------------------------------------------------------------------------
\* HttpMcpClient.connect

IsClientErrorStrict(e) == e.isError /\ Includes(e.message, <<"4", "0", "4">>)

\* const isClientError = streamableError instanceof Error && message.includes("4")
IsClientError(e) == e.isError /\ Includes(e.message, <<"4">>)

\* the Error thrown when the SSE attempt fails too
BothFailedError(streamableError, sseError) ==
    Thrown(TRUE, MsgBothPrefix \o streamableError.message)

HeldAfterFallbackModern(id1, id2) == id1

\* this.transport = new SSEClientTransport(url, { requestInit })
HeldAfterFallback(id1, id2) == id2

HttpConnectResult(env) ==
    IF AlreadyConnected
    THEN [connected |-> connected, transport |-> transport, transports |-> transports,
          completion |-> Returned("void"), made |-> <<>>, causes |-> <<>>]
    ELSE LET id1 == Len(transports) + 1
             t1 == NewTransport("streamable", config)
             id2 == id1 + 1
             t2 == NewTransport("sse", config)
             streamableError == ErrorOf(env.modern, config)
             sseError == ErrorOf(env.legacy, config)
             failed1 == AfterFailedHandshake(t1, env.lib1)
         IN  IF env.modern = CauseOk
             THEN [connected |-> TRUE, transport |-> id1,
                   transports |-> Append(transports, t1),
                   completion |-> Returned("void"),
                   made |-> <<id1>>, causes |-> <<env.modern>>]
             ELSE IF IsClientError(streamableError)
             THEN IF env.legacy = CauseOk
                  THEN [connected |-> TRUE, transport |-> HeldAfterFallback(id1, id2),
                        transports |-> transports \o <<failed1, t2>>,
                        completion |-> Returned("void"),
                        made |-> <<id1, id2>>, causes |-> <<env.modern, env.legacy>>]
                  ELSE [connected |-> connected, transport |-> HeldAfterFallback(id1, id2),
                        transports |-> transports \o
                            <<failed1, AfterFailedHandshake(t2, env.lib2)>>,
                        completion |-> Threw(BothFailedError(streamableError, sseError)),
                        made |-> <<id1, id2>>, causes |-> <<env.modern, env.legacy>>]
             ELSE [connected |-> connected, transport |-> id1,
                   transports |-> Append(transports, failed1),
                   completion |-> Threw(streamableError),
                   made |-> <<id1>>, causes |-> <<env.modern>>]

\* the choices the environment makes during one connect call
ConnectEnvs ==
    IF kind = "stdio"
    THEN [modern : StdioCauses, legacy : {CauseOk}, lib1 : BOOLEAN, lib2 : {FALSE}]
    ELSE [modern : HttpCauses, legacy : HttpCauses, lib1 : BOOLEAN, lib2 : BOOLEAN]

ConnectResult(env) ==
    IF kind = "stdio" THEN StdioConnectResult(env) ELSE HttpConnectResult(env)

PhaseAfterConnect(r) ==
    IF r.completion.threw THEN "connectFailed"
    ELSE "connected"

\* IMcpClient.connect()
Connect(env) ==
    LET r == ConnectResult(env)
    IN  /\ Len(transports) + 2 <= MaxTransports
        /\ connected' = r.connected
        /\ transport' = r.transport
        /\ transports' = r.transports
        /\ phase' = PhaseAfterConnect(r)
        /\ lastCall' = [method |-> "connect", phase |-> phase, completion |-> r.completion,
                        sent |-> FALSE, made |-> r.made, causes |-> r.causes,
                        closeFailed |-> FALSE]
        /\ UNCHANGED <<kind, config>>

----------------------------------------------------------------------------
\* StdioMcpClient.close / HttpMcpClient.close (the same code in both classes)

CloseRethrowsUnguarded(transportCloseFailed) == transportCloseFailed

\* try { await this.transport.close(); } catch { /* ignore */ }
CloseRethrows(transportCloseFailed) == FALSE

CloseIsNoOpWithoutTransport == transport = 0

\* if (!this.connected || !this.transport) { return; }
CloseIsNoOp == ~connected \/ transport = 0

CloseResult(transportCloseFailed) ==
    IF CloseIsNoOp
    THEN [connected |-> connected, transport |-> transport, transports |-> transports,
          completion |-> Returned("void"), invoked |-> FALSE]
    ELSE IF CloseRethrows(transportCloseFailed)
    THEN [connected |-> connected, transport |-> transport,
          transports |-> CloseInvoked(transports, transport),
          completion |-> Threw(Thrown(TRUE, MsgCloseFailed)), invoked |-> TRUE]
    ELSE [connected |-> FALSE, transport |-> 0,
          transports |-> CloseInvoked(transports, transport),
          completion |-> Returned("void"), invoked |-> TRUE]

\* transport.close() can only fail when it is invoked
CloseEnvs == IF connected /\ transport # 0 THEN BOOLEAN ELSE {FALSE}

\* IMcpClient.close()
Close(transportCloseFailed) ==
    LET r == CloseResult(transportCloseFailed)
    IN  /\ connected' = r.connected
        /\ transport' = r.transport
        /\ transports' = r.transports
        /\ phase' = (IF phase = "connected" THEN "closed" ELSE phase)
        /\ lastCall' = [method |-> "close", phase |-> phase, completion |-> r.completion,
                        sent |-> FALSE, made |-> <<>>, causes |-> <<>>,
                        closeFailed |-> r.invoked /\ transportCloseFailed]
        /\ UNCHANGED <<kind, config>>

----------------------------------------------------------------------------
\* listTools / callTool / getServerInfo (the same code in both classes)

NotConnectedGuardOnTransport == transport = 0

\* if (!this.connected) { throw new Error("Client is not connected"); }
NotConnectedGuard == ~connected

Methods == {"listTools", "callTool", "getServerInfo"}
Replies == {"ok", "error"}

ValueOf(method) ==
    CASE method = "listTools" -> "tools"
      [] method = "callTool" -> "toolResult"
      [] OTHER -> "serverInfo"

\* the completion of one client method call, and whether a request went out
RequestResult(method, reply) ==
    IF method = "getServerInfo"
    THEN [completion |-> Returned(IF reply = "ok" THEN "serverInfo" ELSE "undefined"),
          sent |-> FALSE]
    ELSE IF NotConnectedGuard
    THEN [completion |-> Threw(Thrown(TRUE, MsgNotConnected)), sent |-> FALSE]
    ELSE [completion |-> (IF reply = "ok" THEN Returned(ValueOf(method))
                          ELSE Threw(Thrown(TRUE, MsgTimedOut))),
          sent |-> TRUE]

\* IMcpClient.listTools() / callTool() / getServerInfo()
Request(method, reply) ==
    LET r == RequestResult(method, reply)
    IN  /\ lastCall' = [method |-> method, phase |-> phase, completion |-> r.completion,
                        sent |-> r.sent, made |-> <<>>, causes |-> <<>>,
                        closeFailed |-> FALSE]
        /\ UNCHANGED <<kind, config, connected, transport, transports, phase>>

----------------------------------------------------------------------------
\* McpClientSession.withConnection

WcAfterConnectNoFinally(connectThrew) == IF connectThrew THEN "done" ELSE "operate"

\* try { await connect(); return await operation(client); } finally { ... }
WcAfterConnect(connectThrew) == IF connectThrew THEN "close" ELSE "operate"

WcAfterOperateRetrying(operationThrew) == IF operationThrew THEN "operate" ELSE "close"

\* return await operation(this.client): whatever it does, finally comes next
WcAfterOperate(operationThrew) == "close"

\* finally { await this.client.close(); }: a throwing finally block replaces
\* the completion of the try block
FinallyOutcome(tryCompletion, closeCompletion) ==
    IF closeCompletion.threw THEN closeCompletion ELSE tryCompletion

\* getTools / callTool / getServerInfo each start one withConnection
WcStart(op) ==
    /\ pc = "idle"
    /\ calls < MaxCalls
    /\ Len(transports) + 2 <= MaxTransports
    /\ pc' = "connect"
    /\ wcOp' = op
    /\ wcFirst' = Len(transports)
    /\ log' = <<>>
    /\ pending' = NoCompletion
    /\ outcome' = NoCompletion
    /\ calls' = calls + 1
    /\ UNCHANGED <<clientVars, cacheVars>>

WcConnect ==
    /\ pc = "connect"
    /\ \E env \in ConnectEnvs :
          LET c == ConnectResult(env).completion
          IN  /\ Connect(env)
              /\ pc' = WcAfterConnect(c.threw)
              /\ log' = log \o <<"connect", IF c.threw THEN "connectThrew" ELSE "connected">>
              /\ pending' = (IF c.threw THEN c ELSE pending)
    /\ UNCHANGED <<wcOp, wcFirst, outcome, calls, cacheVars>>

WcOperate ==
    /\ pc = "operate"
    /\ \E reply \in Replies :
          LET c == RequestResult(wcOp, reply).completion
          IN  /\ Request(wcOp, reply)
              /\ pending' = c
              /\ log' = log \o <<"operation",
                                 IF c.threw THEN "operationThrew" ELSE "operationReturned">>
              /\ pc' = WcAfterOperate(c.threw)
    /\ UNCHANGED <<wcOp, wcFirst, outcome, calls, cacheVars>>

WcClose ==
    /\ pc = "close"
    /\ \E f \in CloseEnvs :
          /\ Close(f)
          /\ outcome' = FinallyOutcome(pending, CloseResult(f).completion)
    /\ log' = Append(log, "close")
    /\ pc' = "done"
    /\ UNCHANGED <<wcOp, wcFirst, pending, calls, cacheVars>>

\* withConnection's promise settles with outcome; the call's frame is gone
WcReturn ==
    /\ pc = "done"
    /\ pc' = "idle"
    /\ wcOp' = "listTools"
    /\ wcFirst' = 0
    /\ log' = <<>>
    /\ pending' = NoCompletion
    /\ outcome' = NoCompletion
    /\ UNCHANGED <<clientVars, calls, cacheVars>>

----------------------------------------------------------------------------
\* The client used directly through IMcpClient (createMcpClient is exported).

ClientConnect ==
    /\ pc = "idle"
    /\ \E env \in ConnectEnvs : Connect(env)
    /\ UNCHANGED <<wcVars, cacheVars>>

ClientClose ==
    /\ pc = "idle"
    /\ \E f \in CloseEnvs : Close(f)
    /\ UNCHANGED <<wcVars, cacheVars>>

ClientRequest ==
    /\ pc = "idle"
    /\ \E m \in Methods, reply \in Replies : Request(m, reply)
    /\ UNCHANGED <<wcVars, cacheVars>>

----------------------------------------------------------------------------
\* config/cache.ts: JSON values and file contents.

\* a JSON / JavaScript value: t is its type, n its number, s its characters (the
\* names of a cached tool list), items the values it is composed of
Num(n) == [t |-> "num", n |-> n, s |-> <<>>, items |-> <<>>]
Str(chars) == [t |-> "str", n |-> 0, s |-> chars, items |-> <<>>]
List(items) == [t |-> "list", n |-> 0, s |-> items, items |-> <<>>]
Bool(b) == [t |-> "bool", n |-> (IF b THEN 1 ELSE 0), s |-> <<>>, items |-> <<>>]
Undef == [t |-> "undef", n |-> 0, s |-> <<>>, items |-> <<>>]
Null == [t |-> "null", n |-> 0, s |-> <<>>, items |-> <<>>]

Digits == {"0", "1", "2", "3", "4", "5", "6", "7", "8", "9"}
Letters ==
    {"a", "b", "c", "d", "e", "f", "g", "h", "i", "j", "k", "l", "m", "n", "o", "p", "q",
     "r", "s", "t", "u", "v", "w", "x", "y", "z", "A", "B", "C", "D", "E", "F", "G", "H",
     "I", "J", "K", "L", "M", "N", "O", "P", "Q", "R", "S", "T", "U", "V", "W", "X", "Y",
     "Z"}

DigitValue(c) == CHOOSE d \in 0..9 : DigitChar(d) = c

RECURSIVE DecimalValue(_)
DecimalValue(chars) ==
    IF chars = <<>> THEN 0
    ELSE 10 * DecimalValue(SubSeq(chars, 1, Len(chars) - 1)) + DigitValue(chars[Len(chars)])

NaN == [nan |-> TRUE, n |-> 0]
Number(n) == [nan |-> FALSE, n |-> n]

\* JavaScript's ToNumber, as applied by the subtraction now - data.cachedAt
ToNumber(j) ==
    CASE j.t = "num" -> Number(j.n)
      [] j.t = "bool" -> Number(j.n)
      [] j.t = "null" -> Number(0)
      [] j.t = "str" ->
            IF \A i \in 1..Len(j.s) : j.s[i] \in Digits
            THEN Number(DecimalValue(j.s)) ELSE NaN
      [] j.t = "list" -> IF j.s = <<>> THEN Number(0) ELSE NaN
      [] OTHER -> NaN

\* an array of values
Arr(elements) == [t |-> "arr", n |-> 0, s |-> <<>>, items |-> elements]

\* the content of a cache file: absent, text that is not JSON, the JSON text
\* null, or the JSON text of an object with these properties
NoFile == [kind |-> "none", cachedAt |-> Undef, tools |-> Undef, info |-> "none"]
Garbage == [kind |-> "garbage", cachedAt |-> Undef, tools |-> Undef, info |-> "none"]
JsonNull == [kind |-> "null", cachedAt |-> Undef, tools |-> Undef, info |-> "none"]
JsonObject(c, t, i) == [kind |-> "object", cachedAt |-> c, tools |-> t, info |-> i]

\* JSON.stringify({ cachedAt, tools, serverInfo }, null, 2)
Stringify(cachedAt, tools, serverInfo) ==
    JsonObject(Num(cachedAt), List(tools), serverInfo)

\* JSON.parse(content) throws a SyntaxError
JsonParseThrows(content) == content.kind = "garbage"

\* reading a property of the parsed value throws a TypeError (the value is null)
PropertyReadThrows(content) == content.kind = "null"

----------------------------------------------------------------------------
\* Server identities and cache file names.

SrvDot == <<"a", ".", "b">>
SrvUnder == <<"a", "_", "b">>
SrvDash == <<"c", "-", "d">>
Servers == {SrvDot, SrvUnder, SrvDash}

DotJson == <<".", "j", "s", "o", "n">>

\* serverName.replace(/[^a-zA-Z0-9_-]/g, "_")
SafeName(name) ==
    [i \in 1..Len(name) |->
        IF name[i] \in Letters \cup Digits \cup {"_", "-"} THEN name[i] ELSE "_"]

\* join(getCacheDir(), `${safeName}.json`): the file's name inside the cache directory
getCacheFilePath(serverName) == SafeName(serverName) \o DotJson

FileNames == {getCacheFilePath(srv) : srv \in Servers}

Unlink(fs, path) == [fs EXCEPT ![path] = NoFile]
WriteFile(fs, path, content) == [fs EXCEPT ![path] = content]

----------------------------------------------------------------------------
\* getCachedTools

isCacheValidInclusive(cachedAt, ttlMs) ==
    LET c == ToNumber(cachedAt)
    IN  ~c.nan /\ now - c.n <= ttlMs

\* return now - cachedAt < ttlMs  (any comparison with NaN is false)
isCacheValid(cachedAt, ttlMs) ==
    LET c == ToNumber(cachedAt)
    IN  ~c.nan /\ now - c.n < ttlMs

getCachedToolsWhateverTheSetting(serverName) ==
    LET cachePath == getCacheFilePath(serverName)
        content == files[cachePath]
    IN  IF content = NoFile
        THEN [result |-> Undef, files |-> files]
        ELSE IF JsonParseThrows(content) \/ PropertyReadThrows(content)
        THEN [result |-> Undef, files |-> Unlink(files, cachePath)]
        ELSE IF ~isCacheValid(content.cachedAt, settings.cacheTtlMs)
        THEN [result |-> Undef, files |-> Unlink(files, cachePath)]
        ELSE [result |-> content.tools, files |-> files]

\* const settings = getSettings(); if (!settings.cacheEnabled) return undefined;
\* then the file is looked for, read, parsed and checked
getCachedToolsResult(serverName) ==
    LET cachePath == getCacheFilePath(serverName)
        content == files[cachePath]
    IN  IF ~settings.cacheEnabled
        THEN [result |-> Undef, files |-> files]
        ELSE IF content = NoFile
        THEN [result |-> Undef, files |-> files]
        ELSE IF JsonParseThrows(content) \/ PropertyReadThrows(content)
        THEN [result |-> Undef, files |-> Unlink(files, cachePath)]
        ELSE IF ~isCacheValid(content.cachedAt, settings.cacheTtlMs)
        THEN [result |-> Undef, files |-> Unlink(files, cachePath)]
        ELSE [result |-> content.tools, files |-> files]

CacheOp(op, serverName, result) ==
    [op |-> op, server |-> serverName, path |-> getCacheFilePath(serverName),
     found |-> files[getCacheFilePath(serverName)], result |-> result,
     enabled |-> settings.cacheEnabled, ttl |-> settings.cacheTtlMs, at |-> now]

NoCacheOp ==
    [op |-> "none", server |-> SrvDash, path |-> getCacheFilePath(SrvDash),
     found |-> NoFile, result |-> Undef, enabled |-> TRUE, ttl |-> 0, at |-> 0]

NoWrite == [live |-> FALSE, server |-> SrvDash, tools |-> <<>>, info |-> "none", at |-> 0]

\* getCachedTools(serverName)
Get(serverName) ==
    LET r == getCachedToolsResult(serverName)
    IN  /\ files' = r.files
        /\ lastCache' = CacheOp("get", serverName, r.result)
        /\ written' = (IF written.server = serverName /\ r.files # files
                       THEN NoWrite ELSE written)
        /\ UNCHANGED <<now, settings, writes>>

----------------------------------------------------------------------------
\* setCachedTools

ToolLists == {<<"opA">>, <<"opB", "opA">>}
ServerInfos == {"info"}

setCachedToolsIgnoringSetting(serverName, tools, serverInfo) ==
    WriteFile(files, getCacheFilePath(serverName), Stringify(now, tools, serverInfo))

\* if (!settings.cacheEnabled) return; ... writeFileSync(cachePath, content)
setCachedToolsResult(serverName, tools, serverInfo) ==
    IF ~settings.cacheEnabled
    THEN files
    ELSE WriteFile(files, getCacheFilePath(serverName),
                   Stringify(now, tools, serverInfo))

\* the put that the properties follow: the first one since the followed entry
\* was last overwritten by its own server, invalidated, purged by a get of its
\* own server, or modified from outside
Follow(serverName, tools, serverInfo) ==
    IF settings.cacheEnabled /\ (~written.live \/ written.server = serverName)
    THEN [live |-> TRUE, server |-> serverName, tools |-> tools, info |-> serverInfo,
          at |-> now]
    ELSE written

\* setCachedTools(serverName, tools, serverInfo)
Put(serverName, tools, serverInfo) ==
    /\ writes < MaxWrites
    /\ writes' = writes + 1
    /\ files' = setCachedToolsResult(serverName, tools, serverInfo)
    /\ lastCache' = NoCacheOp
    /\ written' = Follow(serverName, tools, serverInfo)
    /\ UNCHANGED <<now, settings>>

----------------------------------------------------------------------------
\* clearServerCache / clearAllCache

clearServerCacheResult(serverName) ==
    LET cachePath == getCacheFilePath(serverName)
    IN  IF files[cachePath] = NoFile
        THEN [result |-> Bool(FALSE), files |-> files]
        ELSE [result |-> Bool(TRUE), files |-> Unlink(files, cachePath)]

\* clearServerCache(serverName)
Invalidate(serverName) ==
    LET r == clearServerCacheResult(serverName)
    IN  /\ files' = r.files
        /\ lastCache' = CacheOp("invalidate", serverName, r.result)
        /\ written' = (IF written.server = serverName THEN NoWrite ELSE written)
        /\ UNCHANGED <<now, settings, writes>>

clearAllCacheSkippingCorrupt ==
    [result |-> Num(Cardinality({f \in FileNames : files[f].kind = "object"})),
     files |-> [f \in FileNames |->
                   IF files[f].kind = "object" THEN NoFile ELSE files[f]]]

\* every file of the cache directory ends with ".json"
clearAllCacheResult ==
    [result |-> Num(Cardinality({f \in FileNames : files[f] # NoFile})),
     files |-> [f \in FileNames |-> NoFile]]

\* clearAllCache()
InvalidateAll ==
    /\ files' = clearAllCacheResult.files
    /\ lastCache' = CacheOp("invalidateAll", SrvDash, clearAllCacheResult.result)
    /\ written' = NoWrite
    /\ UNCHANGED <<now, settings, writes>>

----------------------------------------------------------------------------
\* getCacheStats

\* readdirSync(cacheDir): the files present, in directory order
DirectoryOrder == <<getCacheFilePath(SrvUnder), getCacheFilePath(SrvDash)>>
ReadDir == SelectSeq(DirectoryOrder, LAMBDA f : files[f] # NoFile)

\* file.endsWith(".json")
EndsWithDotJson(file) ==
    Len(file) >= Len(DotJson)
        /\ SubSeq(file, Len(file) - Len(DotJson) + 1, Len(file)) = DotJson

\* file.replace(/\.json$/, "").replace(/_/g, "-")
ServerNameOfFile(file) ==
    LET base == IF EndsWithDotJson(file)
                THEN SubSeq(file, 1, Len(file) - Len(DotJson)) ELSE file
    IN  [i \in 1..Len(base) |-> IF base[i] = "_" THEN "-" ELSE base[i]]

\* data.tools.length: the read throws on undefined and null, a number or a
\* boolean has no length and adding undefined gives NaN
LengthThrows(j) == j.t \in {"undef", "null"}
LengthOf(j) == IF j.t \in {"list", "str"} THEN Number(Len(j.s)) ELSE NaN

\* totalCachedTools += n
Plus(a, b) == IF a.nan \/ b.nan THEN NaN ELSE Number(a.n + b.n)

\* one pass of the loop body over a file: the name is pushed before the
\* length is read, so a throw of the length read leaves the name in the list
StatsStep(acc, file) ==
    LET content == files[file]
    IN  IF ~EndsWithDotJson(file) THEN acc
        ELSE IF JsonParseThrows(content) \/ PropertyReadThrows(content) THEN acc
        ELSE IF ~isCacheValid(content.cachedAt, settings.cacheTtlMs) THEN acc
        ELSE IF LengthThrows(content.tools)
        THEN [acc EXCEPT !.cachedServers = Append(@, ServerNameOfFile(file))]
        ELSE [acc EXCEPT !.cachedServers = Append(@, ServerNameOfFile(file)),
                         !.totalCachedTools = Plus(@, LengthOf(content.tools))]

RECURSIVE StatsOver(_, _)
StatsOver(acc, dir) ==
    IF dir = <<>> THEN acc ELSE StatsOver(StatsStep(acc, Head(dir)), Tail(dir))

getCacheStatsResult ==
    StatsOver([enabled |-> settings.cacheEnabled, ttlMs |-> settings.cacheTtlMs,
               cachedServers |-> <<>>, totalCachedTools |-> Number(0)],
              ReadDir)

\* getCacheStats()
Stats ==
    /\ lastCache' = CacheOp("stats", SrvDash, getCacheStatsResult)
    /\ written' = NoWrite
    /\ UNCHANGED <<files, now, settings, writes>>

----------------------------------------------------------------------------
\* Settings, the clock, and writers outside this process.

\* updateSettings({ cacheEnabled }) from the settings command
SetCacheEnabled(b) ==
    /\ settings.cacheEnabled # b
    /\ settings' = [settings EXCEPT !.cacheEnabled = b]
    /\ lastCache' = NoCacheOp
    /\ UNCHANGED <<files, now, written, writes>>

Tick ==
    /\ now < Epoch + MaxTicks
    /\ now' = now + 1
    /\ lastCache' = NoCacheOp
    /\ UNCHANGED <<files, settings, written, writes>>

Ttls == {2}

\* what a damaged or foreign cache file can hold
DamagedContents ==
    {Garbage, JsonNull,
     JsonObject(Undef, List(<<"opA">>), "none"),
     JsonObject(Str(NumberText(now)), List(<<"opA">>), "none"),
     JsonObject(Num(now), Undef, "none"),
     JsonObject(Num(now), Str(<<"x">>), "none")}

\* not JSON, or cachedAt missing or not a number, or tools missing or not a list
StructurallyInvalid(content) ==
    \/ content.kind \in {"garbage", "null"}
    \/ content.kind = "object" /\ content.cachedAt.t # "num"
    \/ content.kind = "object" /\ content.tools.t # "list"

\* a cache file is damaged (a half-written file, a disk error, a manual edit)
Damage(path, content) ==
    /\ writes < MaxWrites
    /\ writes' = writes + 1
    /\ files' = WriteFile(files, path, content)
    /\ written' = (IF getCacheFilePath(written.server) = path THEN NoWrite ELSE written)
    /\ lastCache' = NoCacheOp
    /\ UNCHANGED <<now, settings>>

----------------------------------------------------------------------------
\* getCachedTools and setCachedTools step by step, for processes that share
\* the cache directory.  writeFileSync opens the file with truncation, writes,
\* and closes: between the two the file is empty.  unlinkSync removes the
\* directory entry; a writer that has the file open keeps writing to the
\* unlinked file.

RaceServer == SrvDash
RacePath == getCacheFilePath(RaceServer)

Unread == [kind |-> "unread", cachedAt |-> Undef, tools |-> Undef, info |-> "none"]

GetResult(raised, result) == [raised |-> raised, result |-> result]
NoGetResult == GetResult(FALSE, Null)

GetRethrowsUnguarded(failed) == failed

\* try { readFileSync; JSON.parse; ...; unlinkSync } catch { try { unlinkSync }
\* catch {} return undefined }: nothing thrown inside leaves getCachedTools
GetRethrows(failed) == FALSE

\* unlinkSync(cachePath) by any process
UnlinkRace(fs) == Unlink(fs, RacePath)

\* the open file of a writer in progress is no longer the directory's entry
\* once the entry has been unlinked
LinkedAfterUnlink == IF wpc = "writing" THEN FALSE ELSE wlinked

\* a get that removes the very entry it read (the one the last put wrote)
\* has purged it; a get that removes anything else has not
LastPutAfterUnlink ==
    IF files[RacePath] = rread /\ files[RacePath] = lastPut THEN NoFile ELSE lastPut

\* lines 48-58: settings.cacheEnabled, existsSync(cachePath)
RdExists ==
    /\ rpc = "idle"
    /\ IF ~settings.cacheEnabled \/ files[RacePath] = NoFile
       THEN rpc' = "done" /\ rres' = GetResult(FALSE, Undef)
       ELSE rpc' = "read" /\ rres' = rres
    /\ rread' = Unread
    /\ UNCHANGED <<cacheVars, wpc, wdata, wlinked, lastPut>>

\* lines 61-64 and 70: readFileSync, JSON.parse, isCacheValid, return data.tools
RdRead ==
    /\ rpc = "read"
    /\ rread' = files[RacePath]
    /\ LET content == files[RacePath]
           failed == \/ content = NoFile
                     \/ JsonParseThrows(content)
                     \/ PropertyReadThrows(content)
       IN  IF failed
           THEN IF GetRethrows(failed)
                THEN rpc' = "done" /\ rres' = GetResult(TRUE, Undef)
                ELSE rpc' = "catch" /\ rres' = rres
           ELSE IF ~isCacheValid(content.cachedAt, settings.cacheTtlMs)
           THEN rpc' = "expired" /\ rres' = rres
           ELSE rpc' = "done" /\ rres' = GetResult(FALSE, content.tools)
    /\ UNCHANGED <<cacheVars, wpc, wdata, wlinked, lastPut>>

\* lines 66-67: unlinkSync(cachePath) of the expired entry; return undefined
RdUnlinkExpired ==
    /\ rpc = "expired"
    /\ IF files[RacePath] = NoFile
       THEN /\ IF GetRethrows(TRUE)
               THEN rpc' = "done" /\ rres' = GetResult(TRUE, Undef)
               ELSE rpc' = "catch" /\ rres' = rres
            /\ UNCHANGED <<files, wlinked, lastPut>>
       ELSE /\ files' = UnlinkRace(files)
            /\ wlinked' = LinkedAfterUnlink
            /\ lastPut' = LastPutAfterUnlink
            /\ rpc' = "done"
            /\ rres' = GetResult(FALSE, Undef)
    /\ UNCHANGED <<now, settings, lastCache, written, writes, rread, wpc, wdata>>

\* lines 71-78: catch { try { unlinkSync(cachePath) } catch {} return undefined }
RdUnlinkInvalid ==
    /\ rpc = "catch"
    /\ files' = UnlinkRace(files)
    /\ wlinked' = (IF files[RacePath] = NoFile THEN wlinked ELSE LinkedAfterUnlink)
    /\ lastPut' = (IF files[RacePath] = NoFile THEN lastPut ELSE LastPutAfterUnlink)
    /\ rpc' = "done"
    /\ rres' = GetResult(FALSE, Undef)
    /\ UNCHANGED <<now, settings, lastCache, written, writes, rread, wpc, wdata>>

\* the caller has the result; the next call can begin
RdReturn ==
    /\ rpc = "done"
    /\ rpc' = "idle"
    /\ rread' = Unread
    /\ rres' = NoGetResult
    /\ UNCHANGED <<cacheVars, wpc, wdata, wlinked, lastPut>>

\* a whole getCachedTools call of a third process, between two steps of the others
OtherGet ==
    LET r == getCachedToolsResult(RaceServer)
    IN  /\ r.files # files
        /\ files' = r.files
        /\ wlinked' = LinkedAfterUnlink
        /\ lastPut' = (IF files[RacePath] = lastPut THEN NoFile ELSE lastPut)
        /\ UNCHANGED <<now, settings, lastCache, written, writes, rpc, rread, rres, wpc,
                       wdata>>

\* lines 90-107 up to the opening of the file: the entry is built with
\* Date.now(), then writeFileSync truncates the file
WrOpen(tools, serverInfo) ==
    /\ wpc = "idle"
    /\ writes < MaxWrites
    /\ writes' = writes + 1
    /\ IF ~settings.cacheEnabled
       THEN UNCHANGED <<files, wpc, wdata, wlinked>>
       ELSE /\ files' = WriteFile(files, RacePath, Garbage)
            /\ wpc' = "writing"
            /\ wdata' = Stringify(now, tools, serverInfo)
            /\ wlinked' = TRUE
    /\ UNCHANGED <<now, settings, lastCache, written, rpc, rread, rres, lastPut>>

\* writeFileSync writes the text and closes the file
WrWrite ==
    /\ wpc = "writing"
    /\ files' = (IF wlinked THEN WriteFile(files, RacePath, wdata) ELSE files)
    /\ lastPut' = wdata
    /\ wpc' = "idle"
    /\ wdata' = NoFile
    /\ wlinked' = TRUE
    /\ UNCHANGED <<now, settings, lastCache, written, writes, rpc, rread, rres>>

RaceTick ==
    /\ Tick
    /\ UNCHANGED raceVars

\* no other process is at work on the cache
RaceIdle ==
    /\ rpc = "idle" /\ rread = Unread /\ rres = NoGetResult
    /\ wpc = "idle" /\ wdata = NoFile /\ wlinked = TRUE
    /\ lastPut = NoFile

----------------------------------------------------------------------------
\* mcp/client.ts createMcpClient and config/loader.ts resolveServerConfig.

\* process.env: one variable is set
EnvValue(name) == IF name = <<"V">> THEN <<"x">> ELSE <<>>

RECURSIVE NamePrefix(_)
NamePrefix(chars) ==
    IF chars # <<>> /\ Head(chars) \in Letters \cup Digits \cup {"_"}
    THEN <<Head(chars)>> \o NamePrefix(Tail(chars)) ELSE <<>>

\* value.replace(/\$\{([^}]+)\}|\$([A-Z_][A-Z0-9_]*)/gi, ...): a reference
\* becomes the value of the variable, the empty text if it is not set
RECURSIVE resolveEnvVars(_)
resolveEnvVars(value) ==
    IF value = <<>> THEN <<>>
    ELSE IF Head(value) # "$" THEN <<Head(value)>> \o resolveEnvVars(Tail(value))
    ELSE LET rest == Tail(value)
             braced ==
                 /\ rest # <<>> /\ Head(rest) = "{"
                 /\ \E i \in 3..Len(rest) : rest[i] = "}"
             close == CHOOSE i \in 3..Len(rest) :
                          rest[i] = "}" /\ \A j \in 2..(i - 1) : rest[j] # "}"
             simple == rest # <<>> /\ Head(rest) \in Letters \cup {"_"}
         IN  IF braced
             THEN EnvValue(SubSeq(rest, 2, close - 1)) \o resolveEnvVars(SubSeq(rest, close + 1, Len(rest)))
             ELSE IF simple
             THEN EnvValue(NamePrefix(rest))
                      \o resolveEnvVars(SubSeq(rest, Len(NamePrefix(rest)) + 1, Len(rest)))
             ELSE <<"$">> \o resolveEnvVars(rest)

\* a ServerConfig as the config file holds it; a property that is absent is Undef
ServerConfig(tag, command, cmdArgs, url, header) ==
    [transport |-> tag, command |-> command, args |-> cmdArgs, url |-> url,
     header |-> header]

\* resolveServerConfig throws if it reads config.url of a configuration without url
ResolveThrows(cfg) == cfg.transport # "stdio" /\ cfg.url = Undef

\* env and cwd of a stdio configuration are resolved as args is
resolveServerConfig(cfg) ==
    IF cfg.transport = "stdio"
    THEN [cfg EXCEPT !.args =
             IF @ = Undef THEN Undef
             ELSE Arr([i \in 1..Len(@.items) |-> Str(resolveEnvVars(@.items[i].s))])]
    ELSE [cfg EXCEPT !.url = Str(resolveEnvVars(@.s)),
                     !.header = IF @ = Undef THEN Undef ELSE Str(resolveEnvVars(@.s))]

isStdioConfig(cfg) == cfg.transport = "stdio"

isHttpConfigLoose(cfg) == cfg.transport # "stdio"

isHttpConfig(cfg) == cfg.transport = "http"

MsgUnknownTransport ==
    <<"U", "n", "k", "n", "o", "w", "n", " ", "t", "r", "a", "n", "s", "p", "o", "r", "t">>
MsgTypeError == <<"T", "y", "p", "e", "E", "r", "r", "o", "r">>

Client(clientKind, cfg) ==
    [threw |-> FALSE, message |-> <<>>, kind |-> clientKind, config |-> cfg]
NoClient(message) ==
    [threw |-> TRUE, message |-> message, kind |-> "none",
     config |-> ServerConfig("none", Undef, Undef, Undef, Undef)]

createMcpClient(cfg) ==
    IF ResolveThrows(cfg) THEN NoClient(MsgTypeError)
    ELSE LET resolvedConfig == resolveServerConfig(cfg)
         IN  IF isStdioConfig(resolvedConfig) THEN Client("stdio", resolvedConfig)
             ELSE IF isHttpConfig(resolvedConfig) THEN Client("http", resolvedConfig)
             ELSE NoClient(MsgUnknownTransport)

\* the configurations: the two variants with the properties their types
\* require, and configurations of other tags with either set of properties
ConfigTexts == {<<"u">>, <<"$", "V">>, <<"$", "{", "W", "}", "u">>, <<"u", "$">>}

OtherTags == {"sse", "ws", "HTTP", "undefined"}

ServerConfigs ==
    {ServerConfig("stdio", Str(c), a, Undef, Undef) :
        c \in ConfigTexts, a \in {Undef} \cup {Arr(<<Str(t)>>) : t \in ConfigTexts}}
        \cup {ServerConfig("http", Undef, Undef, Str(u), h) :
                 u \in ConfigTexts, h \in {Undef} \cup {Str(t) : t \in ConfigTexts}}
        \cup {ServerConfig(tag, c, Undef, u, Undef) :
                 tag \in OtherTags, c \in {Undef, Str(<<"u">>)},
                 u \in {Undef} \cup {Str(t) : t \in ConfigTexts}}

\* new McpClientSession(serverName, config): this.client = createMcpClient(...)
CreateMcpClient ==
    /\ fpc = "config"
    /\ created' = createMcpClient(endpoint)
    /\ fpc' = "created"
    /\ UNCHANGED endpoint

FactoryIdle ==
    /\ endpoint = ServerConfig("none", Undef, Undef, Undef, Undef)
    /\ created = NoClient(<<>>)
    /\ fpc = "idle"

FactoryInit ==
    /\ endpoint \in ServerConfigs
    /\ created = NoClient(<<>>)
    /\ fpc = "config"

----------------------------------------------------------------------------
\* config/loader.ts and commands/ServerManagementCommand.ts: the servers of
\* the configuration file.  config.servers is the object JSON.parse made of
\* the file (or {}), so config.servers[name] is the server's configuration
\* if name is a key of the file, what Object.prototype defines under that
\* name if it defines something, and undefined otherwise.

NameValueOf == <<"v", "a", "l", "u", "e", "O", "f">>

\* names Object.prototype defines (one of them; constructor, toString and
\* hasOwnProperty are others)
PrototypeKeys == {NameValueOf}

\* the names a server command can be given
Names == Servers \cup PrototypeKeys

\* config.servers[name]
ServerEntry(servers, name) ==
    IF name \in servers THEN "config"
    ELSE IF name \in PrototypeKeys THEN "inherited"
    ELSE "undefined"

\* getServerConfig(name)
getServerConfig(name) == ServerEntry(configured, name)

\* addServer(name, serverConfig): false if config.servers[name] is truthy
addServerResult(name) ==
    IF ServerEntry(configured, name) # "undefined"
    THEN [result |-> FALSE, servers |-> configured]
    ELSE [result |-> TRUE, servers |-> configured \cup {name}]

\* removeServer(name): false if config.servers[name] is falsy; else the key
\* is deleted (nothing happens if the object has no such key of its own) and
\* the configuration is saved
removeServerResult(name) ==
    IF ServerEntry(configured, name) = "undefined"
    THEN [result |-> FALSE, servers |-> configured]
    ELSE [result |-> TRUE, servers |-> configured \ {name}]

\* clearServerCache(name), for a name that may have no file in the directory
ClearedFiles(name) ==
    IF getCacheFilePath(name) \in FileNames THEN clearServerCacheResult(name).files
    ELSE files

Removal(name, success) == [name |-> name, success |-> success]
NoRemoval == Removal(SrvDash, FALSE)

\* AddStdioServerCommand / AddHttpServerCommand: addServer(name, serverConfig)
AddServer(name) ==
    /\ configured' = addServerResult(name).servers
    /\ configured' # configured
    /\ removal' = NoRemoval
    /\ lastCache' = NoCacheOp
    /\ UNCHANGED <<files, now, settings, written, writes>>

\* RemoveServerCommand.execute
RemoveServer(name) ==
    LET existing == getServerConfig(name)
        removed == removeServerResult(name)
    IN  /\ lastCache' = NoCacheOp
        /\ UNCHANGED <<now, settings, writes>>
        /\ IF existing = "undefined"
           THEN /\ removal' = Removal(name, FALSE)
                /\ UNCHANGED <<configured, files, written>>
           ELSE IF ~removed.result
           THEN /\ removal' = Removal(name, FALSE)
                /\ UNCHANGED <<configured, files, written>>
           ELSE /\ configured' = removed.servers
                /\ files' = ClearedFiles(name)
                /\ written' = (IF written.server = name THEN NoWrite ELSE written)
                /\ removal' = Removal(name, TRUE)

\* loadTools of a configured server has listed the server's tools
ConfigPut(serverName, tools, serverInfo) ==
    /\ serverName \in configured
    /\ Put(serverName, tools, serverInfo)
    /\ removal' = NoRemoval
    /\ UNCHANGED configured

\* every server of the model is in the configuration file
ConfigIdle == configured = Servers /\ removal = NoRemoval

\* the configuration file names any of the servers
ConfigInit == configured \in SUBSET Servers /\ removal = NoRemoval

----------------------------------------------------------------------------
\* commands/ServerCommand.ts and the tool command: what one CLI process does
\* with sessions and the cache.

\* the servers of the configuration file, in its order
ServerOrder == <<SrvDot, SrvUnder, SrvDash>>

\* transport of each configured server
KindOf(serverName) == IF serverName = SrvDot THEN "stdio" ELSE "http"

ConfigOf(serverName) ==
    CASE serverName = SrvDot -> StdioConfig
      [] serverName = SrvUnder -> [port |-> 3000, headers |-> "none"]
      [] OTHER -> [port |-> 4000, headers |-> "auth"]

\* the tools each server answers listTools with
CatalogOf(serverName) ==
    CASE serverName = SrvDot -> <<"opA">>
      [] serverName = SrvUnder -> <<"opB", "opA">>
      [] OTHER -> <<>>

\* JavaScript truthiness, as in if (cached) and cachedTools || undefined
Truthy(j) ==
    CASE j.t = "num" -> j.n # 0
      [] j.t = "bool" -> j.n = 1
      [] j.t = "str" -> j.s # <<>>
      [] j.t \in {"list", "arr", "obj"} -> TRUE
      [] OTHER -> FALSE

CacheHitNever(cached) == FALSE

\* const cached = getCachedTools(serverName); if (cached) { ... return cached; }
CacheHit(cached) == Truthy(cached)

FreshCommand == [toolsLoaded |-> FALSE, subCommands |-> <<>>]

\* this.createSubCommands(tools); this.toolsLoaded = true
LoadedCommand(tools) == [toolsLoaded |-> TRUE, subCommands |-> tools]

MsgFailedToLoad ==
    <<"F", "a", "i", "l", "e", "d", " ", "t", "o", " ", "l", "o", "a", "d", " ", "t", "o",
      "o", "l", "s", " ", "f", "r", "o", "m", " ">>

\* `Failed to load tools from ${serverName}: ${message or String(error)}`
FailedToLoadMessage(serverName, error) ==
    MsgFailedToLoad \o serverName \o <<":", " ">> \o error.message

\* what a command method handed to its caller, and the text it logged
LoadResult(raised, value, hit, text) ==
    [raised |-> raised, value |-> value, hit |-> hit, warning |-> text]
NoLoadResult == LoadResult(FALSE, Undef, FALSE, <<>>)

LoadFailureRaised(serverName, error) == LoadResult(TRUE, Undef, FALSE, <<>>)

\* catch (error) { logger.error(...); return []; }
LoadFailure(serverName, error) ==
    LoadResult(FALSE, List(<<>>), FALSE, FailedToLoadMessage(serverName, error))

\* new McpClientSession(serverName, serverConfig): a new client object
NewSession(serverName) ==
    /\ kind' = KindOf(serverName)
    /\ config' = ConfigOf(serverName)
    /\ connected' = FALSE
    /\ transport' = 0
    /\ transports' = <<>>
    /\ phase' = "fresh"
    /\ lastCall' = [method |-> "none", phase |-> "fresh", completion |-> NoCompletion,
                    sent |-> FALSE, made |-> <<>>, causes |-> <<>>, closeFailed |-> FALSE]
    /\ calls' = 0

\* the awaited session call has settled and its frame is gone
FrameGone ==
    /\ pc' = "idle"
    /\ wcOp' = "listTools"
    /\ wcFirst' = 0
    /\ log' = <<>>
    /\ pending' = NoCompletion
    /\ outcome' = NoCompletion

\* the awaited session call threw: what it threw is in the hands of the catch block
FrameThrew ==
    /\ pc' = "idle"
    /\ UNCHANGED <<wcOp, wcFirst, log, pending, outcome>>

\* loadTools, lines 70-82: the cache is asked first; on a miss a session is made
LoadBegin(serverName) ==
    /\ lpc = "idle"
    /\ loads < MaxLoads
    /\ loads' = loads + 1
    /\ lop' = "loadTools"
    /\ lsrv' = serverName
    /\ LET r == getCachedToolsResult(serverName)
       IN  /\ files' = r.files
           /\ IF CacheHit(r.result)
              THEN /\ commands' = (IF commands[serverName].toolsLoaded THEN commands
                                   ELSE [commands EXCEPT
                                            ![serverName] = LoadedCommand(r.result.s)])
                   /\ lres' = LoadResult(FALSE, r.result, TRUE, <<>>)
                   /\ lpc' = "done"
                   /\ lsessions' = 0
                   /\ UNCHANGED <<clientVars, calls>>
              ELSE /\ NewSession(serverName)
                   /\ lsessions' = 1
                   /\ lpc' = "getTools"
                   /\ UNCHANGED <<commands, lres>>
    /\ UNCHANGED <<pc, wcOp, wcFirst, log, pending, outcome>>
    /\ UNCHANGED <<now, settings, lastCache, written, writes, logged>>

\* line 83: await session.getTools()
LoadGetTools ==
    /\ lpc = "getTools"
    /\ WcStart("listTools")
    /\ lpc' = "inGetTools"
    /\ UNCHANGED <<commands, lop, lsrv, lres, lsessions, logged, loads>>

\* lines 94-99, entered from either await
LoadCatch(error) ==
    /\ lres' = LoadFailure(lsrv, error)
    /\ logged' = Append(logged, lsrv)
    /\ lpc' = "done"

\* getTools has settled: on to line 86, or into the catch block.  The
\* transports of a finished, closed connection are referenced by nothing.
LoadAfterGetTools ==
    /\ lpc = "inGetTools"
    /\ pc = "done"
    /\ IF outcome.threw
       THEN /\ FrameThrew
            /\ LoadCatch(outcome.error)
            /\ UNCHANGED transports
       ELSE /\ FrameGone
            /\ lpc' = "getServerInfo"
            /\ transports' = (IF transport = 0 THEN <<>> ELSE transports)
            /\ UNCHANGED <<lres, logged>>
    /\ UNCHANGED <<kind, config, connected, transport, phase, lastCall, calls>>
    /\ UNCHANGED <<cacheVars, commands, lop, lsrv, lsessions, loads>>

\* line 86: await session.getServerInfo(), on the same session
LoadGetServerInfo ==
    /\ lpc = "getServerInfo"
    /\ WcStart("getServerInfo")
    /\ lpc' = "inGetServerInfo"
    /\ UNCHANGED <<commands, lop, lsrv, lres, lsessions, logged, loads>>

LoadAfterGetServerInfoStoringAnyway ==
    /\ lpc = "inGetServerInfo"
    /\ pc = "done"
    /\ files' = setCachedToolsResult(lsrv, CatalogOf(lsrv), "none")
    /\ IF outcome.threw
       THEN /\ FrameThrew
            /\ LoadCatch(outcome.error)
            /\ UNCHANGED commands
       ELSE /\ FrameGone
            /\ commands' = [commands EXCEPT ![lsrv] = LoadedCommand(CatalogOf(lsrv))]
            /\ lres' = LoadResult(FALSE, List(CatalogOf(lsrv)), FALSE, <<>>)
            /\ lpc' = "done"
            /\ UNCHANGED logged
    /\ UNCHANGED <<clientVars, calls>>
    /\ UNCHANGED <<now, settings, lastCache, written, writes, lop, lsrv, lsessions, loads>>

\* lines 87-93: setCachedTools, createSubCommands, return tools; or the catch
LoadAfterGetServerInfo ==
    /\ lpc = "inGetServerInfo"
    /\ pc = "done"
    /\ IF outcome.threw
       THEN /\ FrameThrew
            /\ LoadCatch(outcome.error)
            /\ UNCHANGED <<files, commands>>
       ELSE /\ FrameGone
            /\ files' = setCachedToolsResult(lsrv, CatalogOf(lsrv),
                            IF outcome.value = "serverInfo" THEN "info" ELSE "none")
            /\ commands' = [commands EXCEPT ![lsrv] = LoadedCommand(CatalogOf(lsrv))]
            /\ lres' = LoadResult(FALSE, List(CatalogOf(lsrv)), FALSE, <<>>)
            /\ lpc' = "done"
            /\ UNCHANGED logged
    /\ UNCHANGED <<clientVars, calls>>
    /\ UNCHANGED <<now, settings, lastCache, written, writes, lop, lsrv, lsessions, loads>>

\* the transport tag the configuration holds for the server when one of its
\* tool commands runs: loadConfig does not validate the file, and the tool
\* commands of a server are built from the cache without a session
TagsOf(serverName) == {KindOf(serverName), "sse"}

EndpointOf(tag) == ServerConfig(tag, Str(<<"u">>), Undef, Str(<<"u">>), Undef)

\* DynamicToolCommand.execute, lines 39-45: a session for this one call, or
\* the catch block if createMcpClient throws
ExecBegin(serverName) ==
    /\ lpc = "idle"
    /\ loads < MaxLoads
    /\ commands[serverName].subCommands # <<>>
    /\ loads' = loads + 1
    /\ lop' = "execute"
    /\ lsrv' = serverName
    /\ \E tag \in TagsOf(serverName) :
          LET made == createMcpClient(EndpointOf(tag))
          IN  IF made.threw
              THEN /\ lres' = LoadResult(FALSE, Bool(FALSE), FALSE, made.message)
                   /\ lsessions' = 0
                   /\ lpc' = "done"
                   /\ UNCHANGED <<clientVars, calls>>
              ELSE /\ NewSession(serverName)
                   /\ lsessions' = 1
                   /\ lpc' = "callTool"
                   /\ UNCHANGED lres
    /\ UNCHANGED <<pc, wcOp, wcFirst, log, pending, outcome>>
    /\ UNCHANGED <<cacheVars, commands, logged>>

\* line 45: await session.callTool(tool.name, args)
ExecCallTool ==
    /\ lpc = "callTool"
    /\ WcStart("callTool")
    /\ lpc' = "inCallTool"
    /\ UNCHANGED <<commands, lop, lsrv, lres, lsessions, logged, loads>>

ExecEndRethrowing ==
    /\ lpc = "inCallTool"
    /\ pc = "done"
    /\ IF outcome.threw
       THEN /\ FrameThrew
            /\ lres' = LoadResult(TRUE, Undef, FALSE, outcome.error.message)
       ELSE /\ FrameGone
            /\ \E isError \in BOOLEAN :
                  lres' = LoadResult(FALSE, Bool(~isError), FALSE, <<>>)
    /\ lpc' = "done"
    /\ UNCHANGED <<clientVars, calls>>
    /\ UNCHANGED <<cacheVars, commands, lop, lsrv, lsessions, logged, loads>>

\* lines 47-66: the result, an error result, or the caught error become the
\* CommandResult; value is its success field and warning the message of the
\* caught error
ExecEnd ==
    /\ lpc = "inCallTool"
    /\ pc = "done"
    /\ IF outcome.threw
       THEN /\ FrameThrew
            /\ lres' = LoadResult(FALSE, Bool(FALSE), FALSE, outcome.error.message)
       ELSE /\ FrameGone
            /\ \E isError \in BOOLEAN :
                  lres' = LoadResult(FALSE, Bool(~isError), FALSE, <<>>)
    /\ lpc' = "done"
    /\ UNCHANGED <<clientVars, calls>>
    /\ UNCHANGED <<cacheVars, commands, lop, lsrv, lsessions, logged, loads>>

\* the method has returned; its session is garbage
LoadReturn ==
    /\ lpc = "done"
    /\ lpc' = "idle"
    /\ lop' = "none"
    /\ lsrv' = SrvDash
    /\ lres' = NoLoadResult
    /\ lsessions' = 0
    /\ NewSession(SrvDot)
    /\ FrameGone
    /\ UNCHANGED <<cacheVars, commands, logged, loads>>

\* buildCommands of app.ts in the next process: each server's command is made
\* from what getCachedTools returns for it, in the order of the configuration
RECURSIVE BuildFrom(_, _, _)
BuildFrom(i, fs, cmds) ==
    IF i > Len(ServerOrder) THEN [files |-> fs, commands |-> cmds]
    ELSE LET serverName == ServerOrder[i]
             cachePath == getCacheFilePath(serverName)
             content == fs[cachePath]
             absent == \/ ~settings.cacheEnabled
                       \/ content = NoFile
             purged == /\ ~absent
                       /\ \/ JsonParseThrows(content)
                          \/ PropertyReadThrows(content)
                          \/ ~isCacheValid(content.cachedAt, settings.cacheTtlMs)
             cachedTools == IF absent \/ purged THEN Undef ELSE content.tools
         IN  BuildFrom(i + 1,
                       IF purged THEN Unlink(fs, cachePath) ELSE fs,
                       [cmds EXCEPT ![serverName] =
                           IF Truthy(cachedTools) /\ cachedTools.s # <<>>
                           THEN LoadedCommand(cachedTools.s) ELSE FreshCommand])

BuildCommands ==
    /\ lpc = "idle"
    /\ loads < MaxLoads
    /\ LET built == BuildFrom(1, files, commands)
       IN  /\ files' = built.files
           /\ commands' = built.commands
           /\ built.commands # commands \/ built.files # files
    /\ logged' = <<>>
    /\ UNCHANGED <<now, settings, lastCache, written, writes>>
    /\ UNCHANGED <<clientVars, wcVars, lpc, lop, lsrv, lres, lsessions, loads>>

\* the settings command, run before the commands of this process
LoadSetCacheEnabled ==
    /\ lpc = "idle"
    /\ loads = 0
    /\ \E b \in BOOLEAN : SetCacheEnabled(b)

\* Date.now() is read by the cache calls at the two ends of loadTools only:
\* time that passes during the method is time that passed before it
LoadTick ==
    /\ lpc = "idle"
    /\ Tick

\* no command is running: the process has built its commands from an empty cache
LoadIdle ==
    /\ commands = [srv \in Servers |-> FreshCommand]
    /\ lpc = "idle" /\ lop = "none" /\ lsrv = SrvDash
    /\ lres = NoLoadResult /\ lsessions = 0
    /\ logged = <<>> /\ loads = 0

----------------------------------------------------------------------------
\* utils/schema-to-options.ts: the option schema of a tool and the parsing of
\* the values the command line hands to the tool command.
\*
\* An object is the sequence of its entries in insertion order, as
\* Object.entries lists them.

Entry(key, value) == [key |-> key, value |-> value]
HasKey(object, key) == \E i \in 1..Len(object) : object[i].key = key
ValueAt(object, key) == object[CHOOSE i \in 1..Len(object) : object[i].key = key].value

\* object[key] = value
SetKey(object, key, value) ==
    IF HasKey(object, key)
    THEN [i \in 1..Len(object) |->
             IF object[i].key = key THEN Entry(key, value) ELSE object[i]]
    ELSE Append(object, Entry(key, value))

\* a property of the input schema: the declared type (a name or a list of
\* names, none if absent) and the default (Undef if absent)
Property(isArray, names, default) ==
    [typeIsArray |-> isArray, typeNames |-> names, default |-> default]

\* Array.isArray(prop.type) ? prop.type[0] : prop.type
JsonType(prop) == IF prop.typeNames = <<>> THEN "undefined" ELSE prop.typeNames[1]

\* the switch on jsonType
OptionType(jsonType) ==
    CASE jsonType = "string" -> "string"
      [] jsonType \in {"number", "integer"} -> "number"
      [] jsonType = "boolean" -> "boolean"
      [] jsonType = "array" -> "array"
      [] OTHER -> "string"

RequiredAsDeclared(prop, isRequired) == isRequired

\* required: isRequired, then required = false if prop.default !== undefined
RequiredOf(prop, isRequired) == IF prop.default # Undef THEN FALSE ELSE isRequired

\* the description, the label, the enum and the numeric limits of the option
\* are display and validation data of the command line library and are left out
jsonSchemaPropertyToOptionDef(key, prop, isRequired, order) ==
    [type |-> OptionType(JsonType(prop)),
     required |-> RequiredOf(prop, isRequired),
     order |-> order,
     default |-> prop.default]

\* tool.inputSchema: absent, or an object with properties (or none) and the
\* required list
InputSchema(hasProperties, properties, required) ==
    [present |-> TRUE, hasProperties |-> hasProperties, properties |-> properties,
     required |-> required]
NoInputSchema ==
    [present |-> FALSE, hasProperties |-> FALSE, properties |-> <<>>, required |-> {}]

toolToOptionSchema(inputSchema) ==
    IF ~inputSchema.present \/ ~inputSchema.hasProperties THEN <<>>
    ELSE [i \in 1..Len(inputSchema.properties) |->
             LET key == inputSchema.properties[i].key
                 prop == inputSchema.properties[i].value
             IN  Entry(key,
                       jsonSchemaPropertyToOptionDef(
                           key, prop, key \in inputSchema.required, i - 1))]

\* the number NaN as a JavaScript value
NumNaN == [t |-> "nan", n |-> 0, s |-> <<>>, items |-> <<>>]

Comma == ","
WhiteSpace == {" "}

RECURSIVE Join(_, _)
Join(items, sep) ==
    IF items = <<>> THEN <<>>
    ELSE IF Len(items) = 1 THEN items[1]
    ELSE items[1] \o <<sep>> \o Join(Tail(items), sep)

\* String(value); the elements of an array are joined by commas, null and
\* undefined elements as the empty string
RECURSIVE StringOf(_)
StringOf(value) ==
    CASE value.t = "str" -> value.s
      [] value.t = "num" ->
            IF value.n < 0 THEN <<"-">> \o NumberText(-value.n) ELSE NumberText(value.n)
      [] value.t = "bool" ->
            IF value.n = 1 THEN <<"t", "r", "u", "e">> ELSE <<"f", "a", "l", "s", "e">>
      [] value.t = "arr" ->
            Join([i \in 1..Len(value.items) |->
                     IF value.items[i].t \in {"undef", "null"} THEN <<>>
                     ELSE StringOf(value.items[i])],
                 Comma)
      [] value.t = "nan" -> <<"N", "a", "N">>
      [] value.t = "null" -> <<"n", "u", "l", "l">>
      [] OTHER -> <<"u", "n", "d", "e", "f", "i", "n", "e", "d">>

RECURSIVE TrimStart(_)
TrimStart(chars) ==
    IF chars # <<>> /\ Head(chars) \in WhiteSpace THEN TrimStart(Tail(chars)) ELSE chars

RECURSIVE TrimEnd(_)
TrimEnd(chars) ==
    IF chars # <<>> /\ chars[Len(chars)] \in WhiteSpace
    THEN TrimEnd(SubSeq(chars, 1, Len(chars) - 1)) ELSE chars

TrimStartOnly(chars) == TrimStart(chars)

\* s.trim()
Trim(chars) == TrimEnd(TrimStart(chars))

RECURSIVE DigitPrefix(_)
DigitPrefix(chars) ==
    IF chars # <<>> /\ Head(chars) \in Digits
    THEN <<Head(chars)>> \o DigitPrefix(Tail(chars)) ELSE <<>>

\* parseFloat(text) for text without a fraction or an exponent: leading white
\* space is skipped, then an optional sign and the longest run of digits are
\* read; NaN if there is no digit
ParseFloat(text) ==
    LET t == TrimStart(text)
        negative == t # <<>> /\ Head(t) = "-"
        signed == t # <<>> /\ Head(t) \in {"-", "+"}
        digits == DigitPrefix(IF signed THEN Tail(t) ELSE t)
    IN  IF digits = <<>> THEN NumNaN
        ELSE Num(IF negative THEN -DecimalValue(digits) ELSE DecimalValue(digits))

RECURSIVE Split(_, _)
Split(chars, sep) ==
    IF \A i \in 1..Len(chars) : chars[i] # sep THEN <<chars>>
    ELSE LET at == CHOOSE i \in 1..Len(chars) :
                       chars[i] = sep /\ \A j \in 1..(i - 1) : chars[j] # sep
         IN  <<SubSeq(chars, 1, at - 1)>> \o Split(SubSeq(chars, at + 1, Len(chars)), sep)

MsgTrue == <<"t", "r", "u", "e">>

\* the switch on optionDef.type
Coerce(type, value) ==
    CASE type = "number" ->
            IF value.t \in {"num", "nan"} THEN value ELSE ParseFloat(StringOf(value))
      [] type = "boolean" ->
            IF value.t = "bool" THEN value
            ELSE Bool(value = Str(MsgTrue) \/ value = Str(<<"1">>))
      [] type = "array" ->
            IF value.t = "arr" THEN value
            ELSE LET parts == Split(StringOf(value), Comma)
                 IN  Arr([i \in 1..Len(parts) |-> Str(Trim(parts[i]))])
      [] OTHER -> value

SkipsUndefinedOnly(value) == value.t = "undef"

\* value === undefined || value === null
SkipsValue(value) == value.t \in {"undef", "null"}

\* one pass of the loop body of parseOptionValues
ParseStep(result, entry, schema) ==
    IF SkipsValue(entry.value) THEN result
    ELSE IF ~HasKey(schema, entry.key) THEN SetKey(result, entry.key, entry.value)
    ELSE SetKey(result, entry.key, Coerce(ValueAt(schema, entry.key).type, entry.value))

RECURSIVE ParseOver(_, _, _)
ParseOver(result, entries, schema) ==
    IF entries = <<>> THEN result
    ELSE ParseOver(ParseStep(result, Head(entries), schema), Tail(entries), schema)

parseOptionValues(rawValues, schema) == ParseOver(<<>>, rawValues, schema)

\* the tools, and the raw values, that the schema mapper is applied to
KeyP == "p"
KeyQ == "q"
KeyX == "x"

TypeDecls ==
    {[isArray |-> FALSE, names |-> <<>>],
     [isArray |-> FALSE, names |-> <<"string">>],
     [isArray |-> FALSE, names |-> <<"number">>],
     [isArray |-> FALSE, names |-> <<"integer">>],
     [isArray |-> FALSE, names |-> <<"boolean">>],
     [isArray |-> FALSE, names |-> <<"array">>],
     [isArray |-> FALSE, names |-> <<"object">>],
     [isArray |-> TRUE, names |-> <<"number", "null">>],
     [isArray |-> TRUE, names |-> <<>>]}

Defaults == {Undef, Null, Str(<<"d">>)}

PropertiesP ==
    {Property(d.isArray, d.names, def) : d \in TypeDecls, def \in Defaults}

PropertyQ == Property(FALSE, <<"string">>, Undef)

InputSchemas ==
    {NoInputSchema, InputSchema(FALSE, <<>>, {KeyP})}
        \cup {InputSchema(TRUE, <<Entry(KeyP, prop)>>, req) :
                 prop \in PropertiesP, req \in {{}, {KeyP}, {KeyQ}}}
        \cup {InputSchema(TRUE, <<Entry(KeyQ, PropertyQ), Entry(KeyP, prop)>>, {KeyP, KeyQ}) :
                 prop \in PropertiesP}

RawValues ==
    {Undef, Null, Str(<<>>), Str(<<"4">>), Str(<<"1">>), Str(<<"-", "2">>),
     Str(<<"4", "x">>), Str(MsgTrue), Str(<<"a", ",", " ", "b">>),
     Str(<<"a", " ", ",", "b">>), Num(4), Num(1), Bool(TRUE), Bool(FALSE),
     Arr(<<Str(<<"a">>)>>)}

RawObjects ==
    {<<>>}
        \cup {<<Entry(KeyP, v)>> : v \in RawValues}
        \cup {<<Entry(KeyP, v), Entry(KeyX, w)>> :
                 v \in RawValues, w \in {Undef, Null, Str(<<"4">>)}}

----------------------------------------------------------------------------
\* JSON text, as JSON.parse reads it.  The texts of the model hold no
\* escapes, fractions or exponents, and a blank is their only white space.

\* an object: its members in insertion order, each a key and a value
Obj(members) == [t |-> "obj", n |-> 0, s |-> <<>>, items |-> members]
Member(key, value) == [t |-> "member", n |-> 0, s |-> key, items |-> <<value>>]

\* a later member of the same key replaces the earlier one
SetMember(members, key, value) ==
    IF \E i \in 1..Len(members) : members[i].s = key
    THEN [i \in 1..Len(members) |->
             IF members[i].s = key THEN Member(key, value) ELSE members[i]]
    ELSE Append(members, Member(key, value))

Quote == "\""
MsgNull == <<"n", "u", "l", "l">>
MsgFalse == <<"f", "a", "l", "s", "e">>

StartsWith(chars, pat) == Len(chars) >= Len(pat) /\ SubSeq(chars, 1, Len(pat)) = pat
Drop(chars, n) == SubSeq(chars, n + 1, Len(chars))

Parsed(value, rest) == [ok |-> TRUE, value |-> value, rest |-> rest]
ParseFail == [ok |-> FALSE, value |-> Undef, rest |-> <<>>]

\* a string: from the opening quote to the next quote
ParseString(c) ==
    IF \E i \in 2..Len(c) : c[i] = Quote
    THEN LET close == CHOOSE i \in 2..Len(c) :
                          c[i] = Quote /\ \A j \in 2..(i - 1) : c[j] # Quote
         IN  Parsed(Str(SubSeq(c, 2, close - 1)), Drop(c, close))
    ELSE ParseFail

\* a number: an optional minus, then 0 or a run of digits that does not start with 0
ParseNumber(c) ==
    LET negative == Head(c) = "-"
        body == IF negative THEN Tail(c) ELSE c
        digits == IF body # <<>> /\ Head(body) = "0" THEN <<"0">> ELSE DigitPrefix(body)
    IN  IF digits = <<>> THEN ParseFail
        ELSE Parsed(Num(IF negative THEN -DecimalValue(digits) ELSE DecimalValue(digits)),
                    Drop(body, Len(digits)))

RECURSIVE ParseValue(_), ParseElements(_, _), ParseMembers(_, _)

ParseValue(chars) ==
    LET c == TrimStart(chars)
    IN  IF c = <<>> THEN ParseFail
        ELSE IF StartsWith(c, MsgNull) THEN Parsed(Null, Drop(c, Len(MsgNull)))
        ELSE IF StartsWith(c, MsgTrue) THEN Parsed(Bool(TRUE), Drop(c, Len(MsgTrue)))
        ELSE IF StartsWith(c, MsgFalse) THEN Parsed(Bool(FALSE), Drop(c, Len(MsgFalse)))
        ELSE IF Head(c) = Quote THEN ParseString(c)
        ELSE IF Head(c) \in Digits \cup {"-"} THEN ParseNumber(c)
        ELSE IF Head(c) = "["
        THEN LET r == TrimStart(Tail(c))
             IN  IF r # <<>> /\ Head(r) = "]" THEN Parsed(Arr(<<>>), Tail(r))
                 ELSE ParseElements(<<>>, r)
        ELSE IF Head(c) = "{"
        THEN LET r == TrimStart(Tail(c))
             IN  IF r # <<>> /\ Head(r) = "}" THEN Parsed(Obj(<<>>), Tail(r))
                 ELSE ParseMembers(<<>>, r)
        ELSE ParseFail

ParseElements(acc, chars) ==
    LET v == ParseValue(chars)
        r == TrimStart(v.rest)
    IN  IF ~v.ok \/ r = <<>> THEN ParseFail
        ELSE IF Head(r) = Comma THEN ParseElements(Append(acc, v.value), Tail(r))
        ELSE IF Head(r) = "]" THEN Parsed(Arr(Append(acc, v.value)), Tail(r))
        ELSE ParseFail

ParseMembers(acc, chars) ==
    LET c == TrimStart(chars)
        k == ParseString(c)
        r == TrimStart(k.rest)
        v == ParseValue(Tail(r))
        q == TrimStart(v.rest)
    IN  IF c = <<>> \/ Head(c) # Quote THEN ParseFail
        ELSE IF ~k.ok \/ r = <<>> THEN ParseFail
        ELSE IF Head(r) # ":" THEN ParseFail
        ELSE IF ~v.ok \/ q = <<>> THEN ParseFail
        ELSE IF Head(q) = Comma THEN ParseMembers(SetMember(acc, k.value.s, v.value), Tail(q))
        ELSE IF Head(q) = "}" THEN Parsed(Obj(SetMember(acc, k.value.s, v.value)), Tail(q))
        ELSE ParseFail

\* JSON.parse(text): the value, or that a SyntaxError was thrown
JsonParse(text) ==
    LET r == ParseValue(text)
    IN  IF r.ok /\ TrimStart(r.rest) = <<>>
        THEN [threw |-> FALSE, value |-> r.value]
        ELSE [threw |-> TRUE, value |-> Undef]

\* the JSON text a server writes for a value (JSON.stringify without indentation)
RECURSIVE JsonText(_)
JsonText(v) ==
    CASE v.t = "num" -> StringOf(v)
      [] v.t = "bool" -> StringOf(v)
      [] v.t = "str" -> <<Quote>> \o v.s \o <<Quote>>
      [] v.t = "arr" ->
            <<"[">> \o Join([i \in 1..Len(v.items) |-> JsonText(v.items[i])], Comma) \o <<"]">>
      [] v.t = "obj" ->
            <<"{">> \o Join([i \in 1..Len(v.items) |->
                               <<Quote>> \o v.items[i].s \o <<Quote, ":">>
                                   \o JsonText(v.items[i].items[1])],
                           Comma) \o <<"}">>
      [] OTHER -> MsgNull

----------------------------------------------------------------------------
\* The result of a tool call: what the protocol library resolves with, the
\* McpToolResult the client builds from it (mcp/stdio-client.ts, both
\* classes alike), and the CommandResult of the tool command (build.ts).

\* a content item; text items carry text, the others a datum
TextItem(text) == [type |-> "text", text |-> text, data |-> "none", hasResource |-> FALSE]
DataItem(type, data) == [type |-> type, text |-> <<>>, data |-> data, hasResource |-> FALSE]
ResourceItem(uri, hasResource) ==
    [type |-> "resource", text |-> <<>>, data |-> uri, hasResource |-> hasResource]

\* the chain of type tests in the conversion loop
IsConverted(item) ==
    \/ item.type \in {"text", "image", "audio"}
    \/ item.type = "resource" /\ item.hasResource

\* the object pushed for an item: its fields copied one by one
ConvertItem(item) ==
    IF item.type = "text" THEN TextItem(item.text)
    ELSE IF item.type = "resource" THEN ResourceItem(item.data, TRUE)
    ELSE DataItem(item.type, item.data)

RECURSIVE ConvertContentReversed(_)
ConvertContentReversed(items) ==
    IF items = <<>> THEN <<>>
    ELSE IF IsConverted(Head(items))
    THEN Append(ConvertContentReversed(Tail(items)), ConvertItem(Head(items)))
    ELSE ConvertContentReversed(Tail(items))

\* for (const item of result.content) { ... content.push(...) }
RECURSIVE ConvertContent(_)
ConvertContent(items) ==
    IF items = <<>> THEN <<>>
    ELSE IF IsConverted(Head(items))
    THEN <<ConvertItem(Head(items))>> \o ConvertContent(Tail(items))
    ELSE ConvertContent(Tail(items))

\* what client.callTool of the library resolved with
Resolved(hasContent, content, isError, structuredContent) ==
    [rejected |-> FALSE, message |-> <<>>, hasContent |-> hasContent, content |-> content,
     isError |-> isError, structuredContent |-> structuredContent]

\* the call, or the connect before it, was rejected
Rejected(message) ==
    [rejected |-> TRUE, message |-> message, hasContent |-> FALSE, content |-> <<>>,
     isError |-> Undef, structuredContent |-> Undef]

NoResponse == Rejected(<<>>)

McpToolResult(isError, content, structuredContent) ==
    [isError |-> isError, content |-> content, structuredContent |-> structuredContent]

NoToolResult == McpToolResult(FALSE, <<>>, Undef)

\* "isError" in result ? Boolean(result.isError) : false
IsErrorOf(result) == IF result.isError = Undef THEN FALSE ELSE Truthy(result.isError)

\* the value callTool returns for a resolved library call
callToolResult(result) ==
    McpToolResult(IsErrorOf(result),
                  IF result.hasContent THEN ConvertContent(result.content) ELSE <<>>,
                  result.structuredContent)

NewLine == "\n"

\* content.filter((c) => c.type === "text" && c.text)
IsShownText(c) == c.type = "text" /\ c.text # <<>>

formatContentFirstOnly(content) ==
    LET shown == SelectSeq(content, IsShownText)
    IN  IF shown = <<>> THEN <<>> ELSE shown[1].text

formatContent(content) ==
    LET shown == SelectSeq(content, IsShownText)
    IN  Join([i \in 1..Len(shown) |-> shown[i].text], NewLine)

KeyText == <<"t", "e", "x", "t">>
KeyType == <<"t", "y", "p", "e">>
KeyContent == <<"c", "o", "n", "t", "e", "n", "t">>
KeyData == <<"d", "a", "t", "a">>

\* a content item as the value it is when returned as data
ItemValue(c) ==
    Obj(<<Member(KeyType, Str(<<c.type>>)), Member(KeyData, Str(<<c.data>>))>>)

\* { text: firstItem.text }
TextWrapper(text) == Obj(<<Member(KeyText, Str(text))>>)

\* { type: "text", content: ... }
TaggedText(content) == Obj(<<Member(KeyType, Str(KeyText)), Member(KeyContent, content)>>)

\* the body of content.map
TaggedEntry(c) ==
    IF c.type = "text"
    THEN IF JsonParse(c.text).threw THEN TaggedText(Str(c.text))
         ELSE TaggedText(JsonParse(c.text).value)
    ELSE ItemValue(c)

formatContentAsData(content) ==
    IF Len(content) = 1 /\ content[1].type = "text" /\ content[1].text # <<>>
    THEN IF JsonParse(content[1].text).threw THEN TextWrapper(content[1].text)
         ELSE JsonParse(content[1].text).value
    ELSE Arr([i \in 1..Len(content) |-> TaggedEntry(content[i])])

DataFromContent(result) == formatContentAsData(result.content)

\* result.structuredContent || this.formatContentAsData(result.content)
DataOf(result) ==
    IF Truthy(result.structuredContent) THEN result.structuredContent
    ELSE formatContentAsData(result.content)

ToolName == <<"o", "p", "A">>
MsgExecuted ==
    <<"T", "o", "o", "l", " ">> \o ToolName
        \o <<" ", "e", "x", "e", "c", "u", "t", "e", "d", " ",
             "s", "u", "c", "c", "e", "s", "s", "f", "u", "l", "l", "y">>

CommandResult(success, error, data, message) ==
    [success |-> success, error |-> error, data |-> data, message |-> message]

NoCommandResult == CommandResult(FALSE, Undef, Undef, Undef)

\* the two returns of the try block
ResultOf(result) ==
    IF result.isError
    THEN CommandResult(FALSE, Str(formatContent(result.content)), result.structuredContent,
                       Undef)
    ELSE CommandResult(TRUE, Undef, DataOf(result), Str(MsgExecuted))

\* the return of the catch block
ResultOfThrow(message) == CommandResult(FALSE, Str(message), Undef, Undef)

\* the inputs: texts, content items, structured payloads, whole responses
SampleObjects ==
    {Obj(<<>>),
     Obj(<<Member(<<"a">>, Num(1))>>),
     Obj(<<Member(<<"a">>, Str(<<"b">>)), Member(<<"c">>, Arr(<<Num(1), Null>>))>>)}

PlainTexts ==
    {<<>>, <<"h", "i">>, <<"7">>, <<"{", Quote, "a", Quote, ":", "1">>,
     <<" ", "{", "}", " ">>}

Texts == {JsonText(o) : o \in SampleObjects} \cup PlainTexts

Items ==
    {TextItem(t) : t \in Texts}
        \cup {DataItem("image", "png"), DataItem("audio", "wav"),
              ResourceItem("uri", TRUE), ResourceItem("uri", FALSE),
              DataItem("resource_link", "uri")}

RECURSIVE ItemLists(_)
ItemLists(n) ==
    IF n = 0 THEN {<<>>}
    ELSE ItemLists(n - 1)
            \cup {Append(l, i) : l \in {k \in ItemLists(n - 1) : Len(k) = n - 1}, i \in Items}

Payloads == {Undef, Obj(<<>>), Obj(<<Member(<<"r">>, Num(2))>>)}

Responses ==
    {Rejected(MsgTimedOut)}
        \cup {Resolved(FALSE, <<>>, e, sc) : e \in {Undef, Bool(TRUE)}, sc \in Payloads}
        \cup {Resolved(TRUE, l, e, sc) :
                 l \in ItemLists(MaxItems), e \in {Undef, Bool(TRUE), Bool(FALSE)},
                 sc \in Payloads}

\* createToolCommand: const optionSchema = toolToOptionSchema(tool)
ToolToOptionSchema ==
    /\ spc = "tool"
    /\ optionSchema' = toolToOptionSchema(tool)
    /\ spc' = "schema"
    /\ UNCHANGED <<tool, values, args, resultVars>>

\* execute, up to the await: the values are parsed and the session's
\* callTool is started
ToolExecuteBegin ==
    /\ spc = "schema"
    /\ args' = parseOptionValues(values, optionSchema)
    /\ spc' = "calling"
    /\ UNCHANGED <<tool, optionSchema, values, resultVars>>

\* the client's callTool: the library call resolved, the result is converted
\* and returned through the session
ToolCallReturns ==
    /\ spc = "calling"
    /\ ~response.rejected
    /\ callResult' = callToolResult(response)
    /\ spc' = "returned"
    /\ UNCHANGED <<tool, optionSchema, values, args, response, commandResult>>

\* session.callTool throws: the connect or the library call was rejected
ToolCallThrows ==
    /\ spc = "calling"
    /\ response.rejected
    /\ spc' = "threw"
    /\ UNCHANGED <<tool, optionSchema, values, args, resultVars>>

\* execute, after the await
ToolExecuteEnd ==
    /\ spc \in {"returned", "threw"}
    /\ commandResult' =
          (IF spc = "threw" THEN ResultOfThrow(response.message) ELSE ResultOf(callResult))
    /\ spc' = "done"
    /\ UNCHANGED <<tool, optionSchema, values, args, response, callResult>>

\* no tool command is under construction
SchemaIdle ==
    /\ tool = NoInputSchema
    /\ optionSchema = <<>>
    /\ values = <<>>
    /\ args = <<>>
    /\ spc = "idle"

ResultIdle ==
    /\ response = NoResponse
    /\ callResult = NoToolResult
    /\ commandResult = NoCommandResult

\* every input schema and every raw object, against two answers of the server
SchemaInit ==
    /\ tool \in InputSchemas
    /\ optionSchema = <<>>
    /\ values \in RawObjects
    /\ args = <<>>
    /\ spc = "tool"
    /\ response \in {Rejected(MsgTimedOut),
                     Resolved(TRUE, <<TextItem(<<"h", "i">>)>>, Undef, Undef)}
    /\ callResult = NoToolResult
    /\ commandResult = NoCommandResult

\* every answer of the server, to a call of one tool with one raw object
ResultInit ==
    /\ tool = InputSchema(TRUE, <<Entry(KeyP, Property(FALSE, <<"number">>, Undef))>>, {KeyP})
    /\ optionSchema = <<>>
    /\ values = <<Entry(KeyP, Str(<<"4">>))>>
    /\ args = <<>>
    /\ spc = "tool"
    /\ response \in Responses
    /\ callResult = NoToolResult
    /\ commandResult = NoCommandResult

----------------------------------------------------------------------------
\* Initial states.

\* the cache directory while only the session is exercised
CacheIdle ==
    /\ files = [f \in FileNames |-> NoFile]
    /\ now = Epoch
    /\ settings = [cacheEnabled |-> TRUE, cacheTtlMs |-> 2]
    /\ lastCache = NoCacheOp
    /\ written = NoWrite
    /\ writes = 0

\* DEFAULT_SETTINGS has the cache enabled; the TTL comes from the config file
CacheInit ==
    /\ files = [f \in FileNames |-> NoFile]
    /\ now = Epoch
    /\ settings \in [cacheEnabled : {TRUE}, cacheTtlMs : Ttls]
    /\ lastCache = NoCacheOp
    /\ written = NoWrite
    /\ writes = 0

NoCall ==
    [method |-> "none", phase |-> "fresh", completion |-> NoCompletion, sent |-> FALSE,
     made |-> <<>>, causes |-> <<>>, closeFailed |-> FALSE]

\* new McpClientSession(serverName, config): createMcpClient picks the class
SessionInit ==
    /\ \/ kind = "stdio" /\ config = StdioConfig
       \/ kind = "http" /\ config \in HttpConfigs
    /\ connected = FALSE
    /\ transport = 0
    /\ transports = <<>>
    /\ phase = "fresh"
    /\ lastCall = NoCall
    /\ pc = "idle"
    /\ wcOp = "listTools"
    /\ wcFirst = 0
    /\ log = <<>>
    /\ pending = NoCompletion
    /\ outcome = NoCompletion
    /\ calls = 0

Init == SessionInit /\ CacheIdle /\ RaceIdle /\ LoadIdle /\ SchemaIdle /\ ResultIdle /\ FactoryIdle /\ ConfigIdle

Next ==
    \/ (\E op \in Methods : WcStart(op)) /\ UNCHANGED <<raceVars, loadVars, schemaVars, resultVars, factoryVars, configVars>>
    \/ WcConnect /\ UNCHANGED <<raceVars, loadVars, schemaVars, resultVars, factoryVars, configVars>>
    \/ WcOperate /\ UNCHANGED <<raceVars, loadVars, schemaVars, resultVars, factoryVars, configVars>>
    \/ WcClose /\ UNCHANGED <<raceVars, loadVars, schemaVars, resultVars, factoryVars, configVars>>
    \/ WcReturn /\ UNCHANGED <<raceVars, loadVars, schemaVars, resultVars, factoryVars, configVars>>
    \/ ClientConnect /\ UNCHANGED <<raceVars, loadVars, schemaVars, resultVars, factoryVars, configVars>>
    \/ ClientClose /\ UNCHANGED <<raceVars, loadVars, schemaVars, resultVars, factoryVars, configVars>>
    \/ ClientRequest /\ UNCHANGED <<raceVars, loadVars, schemaVars, resultVars, factoryVars, configVars>>

Spec == Init /\ [][Next]_vars

\* no session is in use while the cache is exercised
SessionIdle ==
    /\ kind = "stdio" /\ config = StdioConfig
    /\ connected = FALSE /\ transport = 0 /\ transports = <<>>
    /\ phase = "fresh" /\ lastCall = NoCall
    /\ pc = "idle" /\ wcOp = "listTools" /\ wcFirst = 0 /\ log = <<>>
    /\ pending = NoCompletion /\ outcome = NoCompletion /\ calls = 0

CacheStart == SessionIdle /\ CacheInit /\ RaceIdle /\ LoadIdle /\ SchemaIdle /\ ResultIdle /\ FactoryIdle /\ ConfigIdle

CacheNext ==
    \/ \E srv \in Servers : Get(srv) /\ UNCHANGED <<clientVars, wcVars, raceVars, loadVars, schemaVars, resultVars, factoryVars, configVars>>
    \/ \E srv \in Servers, tools \in ToolLists, info \in ServerInfos :
          Put(srv, tools, info) /\ UNCHANGED <<clientVars, wcVars, raceVars, loadVars, schemaVars, resultVars, factoryVars, configVars>>
    \/ \E srv \in Servers : Invalidate(srv) /\ UNCHANGED <<clientVars, wcVars, raceVars, loadVars, schemaVars, resultVars, factoryVars, configVars>>
    \/ InvalidateAll /\ UNCHANGED <<clientVars, wcVars, raceVars, loadVars, schemaVars, resultVars, factoryVars, configVars>>
    \/ Stats /\ UNCHANGED <<clientVars, wcVars, raceVars, loadVars, schemaVars, resultVars, factoryVars, configVars>>
    \/ \E b \in BOOLEAN : SetCacheEnabled(b) /\ UNCHANGED <<clientVars, wcVars, raceVars, loadVars, schemaVars, resultVars, factoryVars, configVars>>
    \/ Tick /\ UNCHANGED <<clientVars, wcVars, raceVars, loadVars, schemaVars, resultVars, factoryVars, configVars>>
    \/ \E f \in FileNames, c \in DamagedContents :
          Damage(f, c) /\ UNCHANGED <<clientVars, wcVars, raceVars, loadVars, schemaVars, resultVars, factoryVars, configVars>>

CacheSpec == CacheStart /\ [][CacheNext]_vars

\* three processes on the cache file of one server: a reader and a writer
\* that can be interleaved at every file-system call, and whole gets of a third
RaceStart == SessionIdle /\ CacheInit /\ RaceIdle /\ LoadIdle /\ SchemaIdle /\ ResultIdle /\ FactoryIdle /\ ConfigIdle

RaceNext ==
    \/ RdExists /\ UNCHANGED <<clientVars, wcVars, loadVars, schemaVars, resultVars, factoryVars, configVars>>
    \/ RdRead /\ UNCHANGED <<clientVars, wcVars, loadVars, schemaVars, resultVars, factoryVars, configVars>>
    \/ RdUnlinkExpired /\ UNCHANGED <<clientVars, wcVars, loadVars, schemaVars, resultVars, factoryVars, configVars>>
    \/ RdUnlinkInvalid /\ UNCHANGED <<clientVars, wcVars, loadVars, schemaVars, resultVars, factoryVars, configVars>>
    \/ RdReturn /\ UNCHANGED <<clientVars, wcVars, loadVars, schemaVars, resultVars, factoryVars, configVars>>
    \/ OtherGet /\ UNCHANGED <<clientVars, wcVars, loadVars, schemaVars, resultVars, factoryVars, configVars>>
    \/ \E tools \in ToolLists, info \in ServerInfos :
          WrOpen(tools, info) /\ UNCHANGED <<clientVars, wcVars, loadVars, schemaVars, resultVars, factoryVars, configVars>>
    \/ WrWrite /\ UNCHANGED <<clientVars, wcVars, loadVars, schemaVars, resultVars, factoryVars, configVars>>
    \/ RaceTick /\ UNCHANGED <<clientVars, wcVars, loadVars, schemaVars, resultVars, factoryVars, configVars>>

RaceSpec == RaceStart /\ [][RaceNext]_vars

\* one CLI process after another: server commands load their tools, tool
\* commands execute, each through sessions of its own
LoadStart == SessionIdle /\ CacheInit /\ RaceIdle /\ LoadIdle /\ SchemaIdle /\ ResultIdle /\ FactoryIdle /\ ConfigIdle

LoadNext ==
    \/ \E srv \in Servers : LoadBegin(srv) /\ UNCHANGED <<raceVars, schemaVars, resultVars, factoryVars, configVars>>
    \/ LoadGetTools /\ UNCHANGED <<raceVars, schemaVars, resultVars, factoryVars, configVars>>
    \/ LoadAfterGetTools /\ UNCHANGED <<raceVars, schemaVars, resultVars, factoryVars, configVars>>
    \/ LoadGetServerInfo /\ UNCHANGED <<raceVars, schemaVars, resultVars, factoryVars, configVars>>
    \/ LoadAfterGetServerInfo /\ UNCHANGED <<raceVars, schemaVars, resultVars, factoryVars, configVars>>
    \/ \E srv \in Servers : ExecBegin(srv) /\ UNCHANGED <<raceVars, schemaVars, resultVars, factoryVars, configVars>>
    \/ ExecCallTool /\ UNCHANGED <<raceVars, schemaVars, resultVars, factoryVars, configVars>>
    \/ ExecEnd /\ UNCHANGED <<raceVars, schemaVars, resultVars, factoryVars, configVars>>
    \/ LoadReturn /\ UNCHANGED <<raceVars, schemaVars, resultVars, factoryVars, configVars>>
    \/ BuildCommands /\ UNCHANGED <<raceVars, schemaVars, resultVars, factoryVars, configVars>>
    \/ WcConnect /\ UNCHANGED <<raceVars, loadVars, schemaVars, resultVars, factoryVars, configVars>>
    \/ WcOperate /\ UNCHANGED <<raceVars, loadVars, schemaVars, resultVars, factoryVars, configVars>>
    \/ WcClose /\ UNCHANGED <<raceVars, loadVars, schemaVars, resultVars, factoryVars, configVars>>
    \/ LoadTick /\ UNCHANGED <<clientVars, wcVars, raceVars, loadVars, schemaVars, resultVars, factoryVars, configVars>>
    \/ LoadSetCacheEnabled /\ UNCHANGED <<clientVars, wcVars, raceVars, loadVars, schemaVars, resultVars, factoryVars, configVars>>

LoadSpec == LoadStart /\ [][LoadNext]_vars


\* one tool command, from its construction to the end of one execute
ToolNext ==
    \/ ToolToOptionSchema /\ UNCHANGED <<clientVars, wcVars, cacheVars, raceVars, loadVars, factoryVars, configVars>>
    \/ ToolExecuteBegin /\ UNCHANGED <<clientVars, wcVars, cacheVars, raceVars, loadVars, factoryVars, configVars>>
    \/ ToolCallReturns /\ UNCHANGED <<clientVars, wcVars, cacheVars, raceVars, loadVars, factoryVars, configVars>>
    \/ ToolCallThrows /\ UNCHANGED <<clientVars, wcVars, cacheVars, raceVars, loadVars, factoryVars, configVars>>
    \/ ToolExecuteEnd /\ UNCHANGED <<clientVars, wcVars, cacheVars, raceVars, loadVars, factoryVars, configVars>>

SchemaStart ==
    SessionIdle /\ CacheIdle /\ RaceIdle /\ LoadIdle /\ SchemaInit /\ FactoryIdle /\ ConfigIdle

SchemaSpec == SchemaStart /\ [][ToolNext]_vars

ResultStart ==
    SessionIdle /\ CacheIdle /\ RaceIdle /\ LoadIdle /\ ResultInit /\ FactoryIdle /\ ConfigIdle

ResultSpec == ResultStart /\ [][ToolNext]_vars

\* createMcpClient applied to one server configuration
FactoryStart ==
    SessionIdle /\ CacheIdle /\ RaceIdle /\ LoadIdle /\ SchemaIdle /\ ResultIdle
        /\ FactoryInit /\ ConfigIdle

FactoryNext ==
    CreateMcpClient
        /\ UNCHANGED <<clientVars, wcVars, cacheVars, raceVars, loadVars, schemaVars,
                       resultVars, configVars>>

FactorySpec == FactoryStart /\ [][FactoryNext]_vars

\* the server commands on the configuration file and the cache directory
ConfigStart ==
    SessionIdle /\ CacheInit /\ RaceIdle /\ LoadIdle /\ SchemaIdle /\ ResultIdle
        /\ FactoryIdle /\ ConfigInit

ConfigNext ==
    \/ \E name \in Names : RemoveServer(name)
          /\ UNCHANGED <<clientVars, wcVars, raceVars, loadVars, schemaVars, resultVars,
                         factoryVars>>
    \/ \E name \in Names : AddServer(name)
          /\ UNCHANGED <<clientVars, wcVars, raceVars, loadVars, schemaVars, resultVars,
                         factoryVars>>
    \/ \E srv \in Servers, tools \in ToolLists, info \in ServerInfos :
          ConfigPut(srv, tools, info)
          /\ UNCHANGED <<clientVars, wcVars, raceVars, loadVars, schemaVars, resultVars,
                         factoryVars>>
    \/ Tick /\ UNCHANGED <<clientVars, wcVars, raceVars, loadVars, schemaVars, resultVars,
                           factoryVars, configVars>>

ConfigSpec == ConfigStart /\ [][ConfigNext]_vars

----------------------------------------------------------------------------
\* Properties of the session and the clients (checked under Spec).

Has(s, e) == \E i \in 1..Len(s) : s[i] = e
Count(s, e) == Cardinality({i \in 1..Len(s) : s[i] = e})

\* transports constructed by the current withConnection call
CreatedInCall == (wcFirst + 1)..Len(transports)

\* C1: in every withConnection call connect is invoked first and completes
\* before the operation is invoked, the operation is invoked only if connect
\* succeeded, and client.close() is invoked last, exactly once, after the
\* operation returned or threw and also when connect threw.
C1_ConnectOperateCloseOrder ==
    /\ (Len(log) > 0 => log[1] = "connect")
    /\ \A i \in 1..Len(log) :
          log[i] = "operation" => i = 3 /\ log[2] = "connected"
    /\ (Has(log, "connectThrew") => ~Has(log, "operation"))
    /\ (pc = "done" =>
          /\ log[Len(log)] = "close"
          /\ Count(log, "close") = 1
          /\ Count(log, "connect") = 1
          /\ lastCall.method = "close"
          /\ (Has(log, "connected") =>
                Has(log, "operationReturned") \/ Has(log, "operationThrew")))

\* C1 witnesses: a call in which the operation threw, and close still ran
C1_Witness ==
    /\ pc = "done"
    /\ log = <<"connect", "connected", "operation", "operationThrew", "close">>

\* C2: withConnection settles with exactly the completion of the operation
\* (its value, or its error), also when the transport's close failed.
C2_OutcomeIsOperationOutcome ==
    (pc = "done" /\ Has(log, "operation")) =>
        /\ outcome = pending
        /\ (Has(log, "operationReturned") => outcome = Returned(outcome.value))
        /\ (Has(log, "operationThrew") => outcome = Threw(outcome.error))

\* C2 witness: the operation failed and then the transport's close failed too
C2_Witness ==
    /\ pc = "done"
    /\ Has(log, "operationThrew")
    /\ lastCall.method = "close"
    /\ lastCall.closeFailed
    /\ outcome.error.message = MsgTimedOut

\* C3 (as claimed): once withConnection has finished, every transport that was
\* constructed during the call has had its close() invoked.
C3_EveryCreatedTransportClosed ==
    pc = "done" =>
        \A id \in CreatedInCall : transports[id].closeCalls >= 1

\* C4: listTools and callTool invoked on a client that is not connected (never
\* connected, connect failed, or closed) throw the not-connected error and
\* send nothing.
C4_NotConnectedCallsFail ==
    (/\ lastCall.method \in {"listTools", "callTool"}
     /\ lastCall.phase \in {"fresh", "connectFailed", "closed"}) =>
        /\ lastCall.completion = Threw(Thrown(TRUE, MsgNotConnected))
        /\ ~lastCall.sent

\* C4 witness: callTool on an HTTP client whose connect had failed
C4_Witness ==
    /\ kind = "http"
    /\ lastCall.method = "callTool"
    /\ lastCall.phase = "connectFailed"
    /\ transport # 0

\* C5: when the Streamable HTTP attempt is rejected by the server with a 4xx
\* status, connect makes exactly one more attempt, with the SSE transport,
\* against the same URL and headers, and only then succeeds or throws.
C5_LegacyAttemptedExactlyOnce ==
    (/\ lastCall.method = "connect"
     /\ Len(lastCall.causes) >= 1
     /\ IsClientSideRejection(lastCall.causes[1])) =>
        /\ Len(lastCall.made) = 2
        /\ Len(lastCall.causes) = 2
        /\ LET t1 == transports[lastCall.made[1]]
               t2 == transports[lastCall.made[2]]
           IN  /\ t1.type = "streamable"
               /\ t2.type = "sse"
               /\ t2.port = t1.port /\ t2.port = config.port
               /\ t2.headers = t1.headers /\ t2.headers = config.headers
        /\ (lastCall.completion.threw <=> lastCall.causes[2] # CauseOk)

\* C5 witness: a 405 rejection followed by a failed SSE attempt
C5_Witness ==
    /\ lastCall.method = "connect"
    /\ lastCall.causes = <<Cause("http", 405), Cause("refused", 0)>>
    /\ lastCall.completion.threw

\* C6 (as claimed): a Streamable HTTP failure that is not a client-side
\* rejection makes connect throw the original error, with no SSE attempt.
C6_OtherFailuresSurfaceUnchanged ==
    (/\ kind = "http"
     /\ lastCall.method = "connect"
     /\ Len(lastCall.causes) >= 1
     /\ lastCall.causes[1] # CauseOk
     /\ ~IsClientSideRejection(lastCall.causes[1])) =>
        /\ Len(lastCall.made) = 1
        /\ lastCall.completion = Threw(ErrorOf(lastCall.causes[1], config))

\* C7 (as claimed): when both attempts fail, the error thrown carries the
\* Streamable HTTP failure and the SSE failure.
C7_CombinedErrorNamesBoth ==
    (/\ lastCall.method = "connect"
     /\ Len(lastCall.causes) = 2
     /\ lastCall.causes[2] # CauseOk) =>
        /\ lastCall.completion.threw
        /\ Includes(lastCall.completion.error.message,
                    ErrorOf(lastCall.causes[1], config).message)
        /\ Includes(lastCall.completion.error.message,
                    ErrorOf(lastCall.causes[2], config).message)

\* C18 (as claimed): every getTools, callTool and getServerInfo call performs
\* exactly one connect, exactly one close and exactly one client request.
C18_OneCycleOneRequest_AsClaimed ==
    pc = "done" =>
        /\ Count(log, "connect") = 1
        /\ Count(log, "close") = 1
        /\ Count(log, "operation") = 1

\* C18 (amended): every getTools, callTool and getServerInfo call performs
\* exactly one connect and exactly one close; between them it invokes the
\* client method exactly once when connect succeeded and not at all when
\* connect failed; nothing is retried.
C18_OneCycleOneRequest ==
    pc = "done" =>
        /\ Count(log, "connect") = 1
        /\ Count(log, "close") = 1
        /\ Count(log, "operation") = (IF Has(log, "connected") THEN 1 ELSE 0)
        /\ Len(log) = (IF Has(log, "connected") THEN 5 ELSE 3)

\* C18 witness: a getServerInfo call that connected, asked once and closed
C18_Witness ==
    /\ pc = "done"
    /\ wcOp = "getServerInfo"
    /\ log = <<"connect", "connected", "operation", "operationReturned", "close">>

\* C19: connect on a connected client constructs no transport, makes no
\* handshake attempt, does not throw, and leaves transport, connected and
\* every transport object as they were.
C19_ConnectIdempotent ==
    [][(/\ connected
        /\ lastCall'.method = "connect"
        /\ \E env \in ConnectEnvs : Connect(env)) =>
            /\ connected'
            /\ transport' = transport
            /\ transports' = transports
            /\ lastCall'.made = <<>>
            /\ lastCall'.causes = <<>>
            /\ lastCall'.completion = Returned("void")]_vars

\* C19 witness: connect was called on an HTTP client that was connected
C19_Witness ==
    /\ kind = "http"
    /\ lastCall.method = "connect"
    /\ lastCall.phase = "connected"
    /\ connected
    /\ Len(transports) = 1
    /\ transport = 1

\* C20: close never throws and leaves the client not connected, also when the
\* transport's close failed; on a client that is not connected (never
\* connected, or closed before) it invokes no transport's close and changes
\* nothing; on a connected client it invokes close once, on its transport.
C20_CloseIdempotent ==
    [][(/\ lastCall'.method = "close"
        /\ \E f \in BOOLEAN : Close(f)) =>
            /\ lastCall'.completion = Returned("void")
            /\ ~connected'
            /\ (~connected =>
                  /\ transports' = transports
                  /\ transport' = transport)
            /\ (connected =>
                  /\ transport' = 0
                  /\ transports' = CloseInvoked(transports, transport))]_vars

\* C20 witness: a second close on a client that had been connected and closed
C20_Witness ==
    /\ lastCall.method = "close"
    /\ lastCall.phase = "closed"
    /\ ~lastCall.closeFailed
    /\ ~connected
    /\ transport = 0
    /\ Len(transports) = 1
    /\ transports[1].closeCalls = 1

\* C21: an HTTP connect that succeeds holds the transport whose handshake
\* succeeded (the Streamable HTTP one, or the SSE one after the fallback), and
\* close on the connected client invokes close on that transport and on no
\* other, so never on the Streamable HTTP transport that had failed.
C21_CloseClosesTheOneThatSucceeded ==
    [][/\ (kind = "http" /\ ~connected /\ connected') =>
              LET made == lastCall'.made
              IN  /\ transport' = made[Len(made)]
                  /\ lastCall'.causes[Len(made)] = CauseOk
                  /\ \A i \in 1..(Len(made) - 1) : lastCall'.causes[i] # CauseOk
                  /\ transports'[transport'].type =
                        (IF Len(made) = 2 THEN "sse" ELSE "streamable")
       /\ (kind = "http" /\ connected /\ ~connected') =>
              /\ Len(transports') = Len(transports)
              /\ transports'[transport].closeCalls = transports[transport].closeCalls + 1
              /\ \A id \in 1..Len(transports) :
                    id # transport => transports'[id] = transports[id]]_vars

\* C21 witness: the connection was made through the SSE fallback and close
\* has closed the SSE transport, not the Streamable HTTP one
C21_Witness ==
    /\ kind = "http"
    /\ lastCall.method = "close"
    /\ lastCall.phase = "connected"
    /\ Len(transports) = 2
    /\ transports[1].type = "streamable" /\ transports[1].closeCalls = 0
    /\ transports[2].type = "sse" /\ transports[2].closeCalls = 1
    /\ transport = 0

----------------------------------------------------------------------------
\* Properties of the catalog cache (checked under CacheSpec).

\* C8 (as claimed): with caching enabled, a get for a server less than ttl
\* after its put, with no put, invalidate or invalidateAll for that server in
\* between, returns exactly the operations that were put and leaves the
\* persisted entry in place.
C8_FreshGetReturnsWhatWasPut ==
    (/\ lastCache.op = "get"
     /\ lastCache.enabled
     /\ written.live
     /\ written.server = lastCache.server
     /\ lastCache.at - written.at < lastCache.ttl) =>
        /\ lastCache.result = List(written.tools)
        /\ files[lastCache.path] = Stringify(written.at, written.tools, written.info)

\* a get found a well-formed entry whose age had reached the TTL
ExpiredEntryRead ==
    /\ lastCache.op = "get"
    /\ lastCache.found.kind = "object"
    /\ lastCache.found.cachedAt.t = "num"
    /\ lastCache.at - lastCache.found.cachedAt.n >= lastCache.ttl

C10_InvalidEntryPurged ==
    (/\ lastCache.op = "get"
     /\ lastCache.enabled
     /\ StructurallyInvalid(lastCache.found)) =>
        /\ lastCache.result = Undef
        /\ files[lastCache.path] = NoFile

\* C11: a put with caching enabled leaves, as soon as it returns, an entry for
\* its server holding the operations and server info it was given and
\* cachedAt equal to the current time; a put with caching disabled creates,
\* overwrites and deletes no file.
C11_PutPersistsOrNoOp ==
    [][\A srv \in Servers, tools \in ToolLists, info \in ServerInfos :
          Put(srv, tools, info) =>
              IF settings.cacheEnabled
              THEN LET entry == files'[getCacheFilePath(srv)]
                   IN  /\ entry.kind = "object"
                       /\ entry.cachedAt = Num(now)
                       /\ entry.tools = List(tools)
                       /\ entry.info = info
              ELSE \A f \in FileNames : files'[f] = files[f]]_vars

\* C11 witness: an entry was put at the current time with caching enabled, and
\* after caching was disabled a further put left the directory as it was
C11_Witness ==
    /\ ~settings.cacheEnabled
    /\ writes = 2
    /\ written.live
    /\ written.at = now
    /\ \A f \in FileNames :
          files[f] = (IF f = getCacheFilePath(written.server)
                      THEN Stringify(now, written.tools, written.info) ELSE NoFile)

\* C12 (as claimed): a put, a get or an invalidate on one server identity
\* leaves the entry of every other server identity as it was.
C12_ServersDoNotInterfere ==
    [][\A srv \in Servers :
          (\/ Get(srv)
           \/ Invalidate(srv)
           \/ \E tools \in ToolLists, info \in ServerInfos : Put(srv, tools, info)) =>
              \A other \in Servers \ {srv} :
                  files'[getCacheFilePath(other)] = files[getCacheFilePath(other)]]_vars

\* C22 (as claimed): invalidate(server) leaves no entry for the server and
\* returns true exactly when there was one, with caching enabled or disabled;
\* a get for the server then returns absent, and the entry of every other
\* server is as it was.
C22_InvalidateDeletesOnlyItsEntry ==
    [][\A srv \in Servers :
          Invalidate(srv) =>
              /\ files'[getCacheFilePath(srv)] = NoFile
              /\ lastCache'.result = Bool(files[getCacheFilePath(srv)] # NoFile)
              /\ (getCachedToolsResult(srv).result = Undef)'
              /\ \A other \in Servers \ {srv} :
                    files'[getCacheFilePath(other)] = files[getCacheFilePath(other)]]_vars

\* C23: invalidateAll leaves no entry in the cache directory, whatever the
\* entries held, and returns how many there were; a get for any server then
\* returns absent.
C23_InvalidateAllDeletesEverything ==
    [][InvalidateAll =>
          /\ \A f \in FileNames : files'[f] = NoFile
          /\ lastCache'.result = Num(Cardinality({f \in FileNames : files[f] # NoFile}))
          /\ \A srv \in Servers : (getCachedToolsResult(srv).result = Undef)']_vars

\* C23 witness: invalidateAll has deleted two entries and none is left
C23_Witness ==
    /\ lastCache.op = "invalidateAll"
    /\ lastCache.result = Num(2)
    /\ \A f \in FileNames : files[f] = NoFile

\* an entry that is neither corrupt nor expired
ValidEntry(content) ==
    /\ content.kind = "object"
    /\ content.cachedAt.t = "num"
    /\ content.tools.t = "list"
    /\ now - content.cachedAt.n < settings.cacheTtlMs

\* C24 (as claimed): stats reports the enabled flag and the ttl of the
\* settings, names exactly the servers whose entry is valid, each by the
\* identity it was stored under, and totals the operation counts of exactly
\* those entries.
C24_StatsReportsValidEntries ==
    lastCache.op = "stats" =>
        LET r == lastCache.result
            named == {r.cachedServers[i] : i \in 1..Len(r.cachedServers)}
            valid == {f \in FileNames : ValidEntry(files[f])}
            counts == [f \in FileNames |->
                          IF f \in valid THEN Len(files[f].tools.s) ELSE 0]
        IN  /\ r.enabled = settings.cacheEnabled
            /\ r.ttlMs = settings.cacheTtlMs
            /\ \A name \in named :
                  name \in Servers /\ getCacheFilePath(name) \in valid
            /\ \A f \in valid : \E name \in named : getCacheFilePath(name) = f
            /\ r.totalCachedTools =
                  Number(counts[getCacheFilePath(SrvUnder)] + counts[getCacheFilePath(SrvDash)])

----------------------------------------------------------------------------
\* Properties of concurrent cache access (checked under RaceSpec).

\* C13 (as claimed): once every put and get on the server's entry has
\* finished, the persisted entry is exactly the entry written by the put that
\* finished last, unless a get that read that very entry purged it.
C13_LastWriterWins ==
    (rpc \in {"idle", "done"} /\ wpc = "idle" /\ lastPut # NoFile) =>
        files[RacePath] = lastPut

\* C14: a get whose read found the file half-written, or gone although its
\* existence check had found it, returns absent and does not raise.
C14_TornOrVanishedReadIsAbsent ==
    (rpc = "done" /\ rread \in {Garbage, NoFile}) =>
        rres = GetResult(FALSE, Undef)

\* C14 witness: the entry existed when the get checked, was purged by another
\* process before the get read it, and the get has returned
C14_Witness ==
    /\ rpc = "done"
    /\ rread = NoFile
    /\ rres = GetResult(FALSE, Undef)

----------------------------------------------------------------------------
\* Properties of the commands (checked under LoadSpec).

\* C15: a loadTools call never raises.  When one of its session calls threw
\* (connect failed or the request failed) it returns the empty list and has
\* logged one message that names its server and carries the error; a
\* loadTools call that went to its server without such a failure returns that
\* server's own tools and logs nothing, whatever failed before it.
C15_LoadFailureStaysWithItsServer ==
    (lpc = "done" /\ lop = "loadTools") =>
        /\ ~lres.raised
        /\ (outcome.threw =>
              /\ lres.value = List(<<>>)
              /\ lres.warning =
                    MsgFailedToLoad \o lsrv \o <<":", " ">> \o outcome.error.message
              /\ logged # <<>>
              /\ logged[Len(logged)] = lsrv)
        /\ (~outcome.threw /\ ~lres.hit =>
              /\ lres.value = List(CatalogOf(lsrv))
              /\ lres.warning = <<>>)

\* C15 witness: the load for c-d failed and was logged, and then the load for
\* a_b went to its server and returned a_b's own tools
C15_Witness ==
    /\ lpc = "done"
    /\ lop = "loadTools"
    /\ lsrv = SrvUnder
    /\ logged = <<SrvDash>>
    /\ ~lres.hit
    /\ lres.value = List(<<"opB", "opA">>)

\* the cache holds a well-formed entry for the server that has not expired
FreshEntry(serverName) ==
    LET content == files[getCacheFilePath(serverName)]
    IN  /\ settings.cacheEnabled
        /\ content.kind = "object"
        /\ content.cachedAt.t = "num"
        /\ now - content.cachedAt.n < settings.cacheTtlMs
        /\ content.tools.t = "list"

\* C16: a loadTools call that finds a fresh entry for its server returns the
\* cached tools in that same step; it creates no session and nothing is
\* invoked on any client (no connect, no listTools, no close).
C16_CacheHitTouchesNoSession ==
    [][\A srv \in Servers :
          (LoadBegin(srv) /\ FreshEntry(srv)) =>
              /\ lpc' = "done"
              /\ ~lres'.raised
              /\ lres'.value = files[getCacheFilePath(srv)].tools
              /\ lsessions' = 0
              /\ UNCHANGED <<clientVars, wcVars>>]_vars

\* C16 witness: the second loadTools for a.b returned a.b's tools from the
\* cache, with no session and no client call
C16_Witness ==
    /\ lpc = "done"
    /\ lop = "loadTools"
    /\ lsrv = SrvDot
    /\ lres.hit
    /\ lres.value = List(<<"opA">>)
    /\ lsessions = 0
    /\ lastCall.method = "none"
    /\ transports = <<>>

\* C17 (as claimed): no session object starts a second withConnection call
\* (a second connect/close cycle).
C17_OneOperationPerSession ==
    calls <= 1

----------------------------------------------------------------------------
\* Properties of the schema mapper (checked under SchemaSpec).

\* C25: the parsed values hold no key whose raw value was null or undefined,
\* whatever the type of the option and also if the key is no option at all,
\* and hold no null or undefined value
C25_NullAndAbsentValuesAreOmitted ==
    spc \in {"calling", "returned", "threw", "done"} =>
        /\ \A i \in 1..Len(values) :
              values[i].value.t \in {"undef", "null"} => ~HasKey(args, values[i].key)
        /\ \A i \in 1..Len(args) : args[i].value.t \notin {"undef", "null"}

\* C25 witness: a null for a number option was left out and the value of a
\* key that is no option was kept
C25_Witness ==
    /\ spc = "calling"
    /\ values = <<Entry(KeyP, Null), Entry(KeyX, Str(<<"4">>))>>
    /\ HasKey(optionSchema, KeyP)
    /\ ValueAt(optionSchema, KeyP).type = "number"
    /\ args = <<Entry(KeyX, Str(<<"4">>))>>

\* C26: an option is required exactly when its key is in the required list
\* of the schema and its property has no default
C26_RequiredUnlessDefault ==
    spc \in {"schema", "calling", "returned", "threw", "done"} =>
        \A i \in 1..Len(tool.properties) :
            LET key == tool.properties[i].key
                prop == tool.properties[i].value
            IN  /\ HasKey(optionSchema, key)
                /\ ValueAt(optionSchema, key).required =
                      (key \in tool.required /\ prop.default = Undef)

\* C26 witness: a property that is declared required and has a default was
\* made optional
C26_Witness ==
    /\ spc = "schema"
    /\ KeyP \in tool.required
    /\ \E i \in 1..Len(tool.properties) :
          /\ tool.properties[i].key = KeyP
          /\ tool.properties[i].value.default = Str(<<"d">>)
    /\ HasKey(optionSchema, KeyP)
    /\ ~ValueAt(optionSchema, KeyP).required

----------------------------------------------------------------------------
\* Properties of call results (checked under ResultSpec).

\* the call returned a result without error flag and without structured
\* payload whose content is exactly one text item
SingleTextResult ==
    /\ spc = "done"
    /\ ~response.rejected
    /\ ~callResult.isError
    /\ callResult.structuredContent = Undef
    /\ Len(callResult.content) = 1
    /\ callResult.content[1].type = "text"

\* C27 (as claimed): for a result whose content is one text item the data of
\* the command result is the object that the text encodes, and for a text
\* that does not parse it is the wrapper { text } of that text
C27_SingleTextIsParsedOrWrapped ==
    SingleTextResult =>
        LET text == callResult.content[1].text
        IN  /\ \A o \in SampleObjects : text = JsonText(o) => commandResult.data = o
            /\ JsonParse(text).threw => commandResult.data = TextWrapper(text)

\* C28: a structured payload of the result is the data of the command
\* result, whatever the content and the error flag of the result
C28_StructuredPayloadPassesThrough ==
    (spc = "done" /\ ~response.rejected /\ response.structuredContent # Undef) =>
        commandResult.data = response.structuredContent

\* C28 witness: an empty object came as payload beside two content items and
\* is the data
C28_Witness ==
    /\ spc = "done"
    /\ response.structuredContent = Obj(<<>>)
    /\ Len(callResult.content) = MaxItems
    /\ commandResult.success
    /\ commandResult.data = Obj(<<>>)

\* C29: a result with the error flag set is returned by callTool, not
\* thrown, with isError true and with the content items; the command result
\* is a failure whose error holds the text of every text item
C29_ErrorResultKeepsItsDiagnostics ==
    (~response.rejected /\ response.isError = Bool(TRUE)) =>
        /\ spc # "threw"
        /\ spc \in {"returned", "done"} =>
              /\ callResult.isError
              /\ \A i \in 1..Len(response.content) :
                    IsConverted(response.content[i]) =>
                        \E j \in 1..Len(callResult.content) :
                            callResult.content[j] = ConvertItem(response.content[i])
        /\ spc = "done" =>
              /\ ~commandResult.success
              /\ \A i \in 1..Len(response.content) :
                    response.content[i].type = "text" =>
                        Includes(commandResult.error.s, response.content[i].text)

\* C29 witness: the two diagnostic texts of an error result are the error of
\* the command result
C29_Witness ==
    /\ spc = "done"
    /\ response.isError = Bool(TRUE)
    /\ callResult.isError
    /\ callResult.content = <<TextItem(<<"h", "i">>), TextItem(<<"7">>)>>
    /\ ~commandResult.success
    /\ commandResult.error = Str(<<"h", "i", NewLine, "7">>)

\* C30: the content of the call result is the items of the answer that the
\* client converts, in the order of the answer, and the tagged entries
\* rendered from a content of several items follow the content one by one
C30_ContentKeepsTheServersOrder ==
    (spc \in {"returned", "done"} /\ ~response.rejected) =>
        LET kept == SelectSeq(response.content, IsConverted)
            content == callResult.content
            data == commandResult.data
        IN  /\ Len(content) = Len(kept)
            /\ \A i \in 1..Len(kept) : content[i] = ConvertItem(kept[i])
            /\ (/\ spc = "done" /\ commandResult.success
                /\ callResult.structuredContent = Undef /\ Len(content) > 1) =>
                  /\ data.t = "arr"
                  /\ Len(data.items) = Len(content)
                  /\ \A i \in 1..Len(content) :
                        IF content[i].type = "text"
                        THEN \/ data.items[i] = TaggedText(Str(content[i].text))
                             \/ /\ ~JsonParse(content[i].text).threw
                                /\ data.items[i] = TaggedText(JsonParse(content[i].text).value)
                        ELSE data.items[i] = ItemValue(content[i])

\* C30 witness: an image and then a text came, and both lists hold the image
\* first
C30_Witness ==
    /\ spc = "done"
    /\ response.content = <<DataItem("image", "png"), TextItem(<<"h", "i">>)>>
    /\ callResult.content = <<DataItem("image", "png"), TextItem(<<"h", "i">>)>>
    /\ commandResult.data =
          Arr(<<ItemValue(DataItem("image", "png")), TaggedText(Str(<<"h", "i">>))>>)

----------------------------------------------------------------------------
\* Properties of createMcpClient (checked under FactorySpec).

\* C31: a stdio configuration gives the stdio client, an http configuration
\* the HTTP client, and a configuration of any other tag gives an error and
\* no client
C31_TagDeterminesTheClient ==
    fpc = "created" =>
        /\ endpoint.transport = "stdio" => ~created.threw /\ created.kind = "stdio"
        /\ endpoint.transport = "http" => ~created.threw /\ created.kind = "http"
        /\ endpoint.transport \notin {"stdio", "http"} =>
              created.threw /\ created.kind = "none"

\* C31 witness: a configuration tagged sse that has a url was refused as of
\* unknown transport
C31_Witness ==
    /\ fpc = "created"
    /\ endpoint.transport = "sse"
    /\ endpoint.url = Str(<<"u">>)
    /\ created.threw
    /\ created.message = MsgUnknownTransport

----------------------------------------------------------------------------
\* Further properties of the tool cache (checked under CacheSpec).

\* an entry whose age has reached the TTL
ExpiredEntry(content) ==
    /\ content.kind = "object"
    /\ content.cachedAt.t = "num"
    /\ now - content.cachedAt.n >= settings.cacheTtlMs

\* C32 (as claimed): stats and the passage of time change no persisted entry,
\* a put changes no entry of another server, and the expired entry of a server
\* is deleted only by a get or an invalidate for that server or by
\* invalidateAll.
C32_EvictionOnlyOnRead ==
    [][/\ (Stats \/ Tick) => \A f \in FileNames : files'[f] = files[f]
       /\ \A srv \in Servers :
             (\E tools \in ToolLists, info \in ServerInfos : Put(srv, tools, info)) =>
                 \A other \in Servers \ {srv} :
                     files'[getCacheFilePath(other)] = files[getCacheFilePath(other)]
       /\ \A srv \in Servers :
             (/\ ExpiredEntry(files[getCacheFilePath(srv)])
              /\ files'[getCacheFilePath(srv)] = NoFile) =>
                 (Get(srv) \/ Invalidate(srv) \/ InvalidateAll)]_vars

----------------------------------------------------------------------------
\* Further properties of the schema mapper (checked under SchemaSpec).

\* the text without its blanks
RECURSIVE Unspaced(_)
Unspaced(chars) ==
    IF chars = <<>> THEN <<>>
    ELSE IF Head(chars) = " " THEN Unspaced(Tail(chars))
    ELSE <<Head(chars)>> \o Unspaced(Tail(chars))

\* the elements are the comma-separated pieces of the text, each without
\* blanks around it
IsTrimmedSplit(elements, text) ==
    /\ Len(elements) = 1 + Cardinality({i \in 1..Len(text) : text[i] = ","})
    /\ \A i \in 1..Len(elements) :
          /\ elements[i].t = "str"
          /\ \A j \in 1..Len(elements[i].s) : elements[i].s[j] # ","
          /\ elements[i].s # <<>> =>
                elements[i].s[1] # " " /\ elements[i].s[Len(elements[i].s)] # " "
    /\ Unspaced(Join([i \in 1..Len(elements) |-> elements[i].s], ",")) = Unspaced(text)

\* C33: of a value that is neither null nor undefined, a boolean option gives
\* true exactly for the boolean true and the texts "true" and "1", an array
\* option keeps an array and gives the trimmed comma-separated pieces of the
\* text of anything else, and a string option keeps the value
C33_ValuesAreCoercedByType ==
    spc \in {"calling", "returned", "threw", "done"} =>
        \A i \in 1..Len(values) :
            LET key == values[i].key
                raw == values[i].value
            IN  (raw.t \notin {"undef", "null"} /\ HasKey(optionSchema, key)) =>
                    /\ HasKey(args, key)
                    /\ LET type == ValueAt(optionSchema, key).type
                           out == ValueAt(args, key)
                       IN  /\ type = "boolean" =>
                                 out = Bool(\/ raw = Bool(TRUE)
                                            \/ raw = Str(<<"t", "r", "u", "e">>)
                                            \/ raw = Str(<<"1">>))
                           /\ (type = "array" /\ raw.t = "arr") => out = raw
                           /\ (type = "array" /\ raw.t # "arr") =>
                                 /\ out.t = "arr"
                                 /\ IsTrimmedSplit(out.items, StringOf(raw))
                           /\ type = "string" => out = raw

\* C33 witness: the text "a ,b" given for an array option became the two
\* elements "a" and "b"
C33_Witness ==
    /\ spc = "calling"
    /\ values = <<Entry(KeyP, Str(<<"a", " ", ",", "b">>))>>
    /\ HasKey(optionSchema, KeyP)
    /\ ValueAt(optionSchema, KeyP).type = "array"
    /\ args = <<Entry(KeyP, Arr(<<Str(<<"a">>), Str(<<"b">>)>>))>>

\* the number 1 given for a boolean option became false
C33_NumberOneIsFalse ==
    /\ spc = "calling"
    /\ values = <<Entry(KeyP, Num(1))>>
    /\ HasKey(optionSchema, KeyP)
    /\ ValueAt(optionSchema, KeyP).type = "boolean"
    /\ args = <<Entry(KeyP, Bool(FALSE))>>

----------------------------------------------------------------------------
\* Further properties of the commands (checked under LoadSpec).

\* the entry of the server holds its catalog and the current time
CatalogStored(serverName) ==
    LET entry == files[getCacheFilePath(serverName)]
    IN  /\ entry.kind = "object"
        /\ entry.cachedAt = Num(now)
        /\ entry.tools = List(CatalogOf(serverName))

\* loadTools goes from a session call to its return
LoadMissEnds ==
    /\ lop = "loadTools"
    /\ lpc \in {"inGetTools", "inGetServerInfo"}
    /\ lpc' = "done"

\* a loadTools that had a cache miss is between its cache read and its return
LoadMissRuns ==
    /\ lop = "loadTools"
    /\ lpc \in {"getTools", "inGetTools", "getServerInfo", "inGetServerInfo"}

\* C34 (as claimed): a loadTools that went to its server stores the catalog
\* with the current time and returns it when its last session call succeeded;
\* when a session call threw it returns the empty list, writes nothing and
\* the next get for its server returns absent.
C34_MissStoresIffBothCyclesSucceed_AsClaimed ==
    [][/\ LoadMissEnds =>
             IF outcome.threw
             THEN /\ lres'.value = List(<<>>)
                  /\ \A f \in FileNames : files'[f] = files[f]
                  /\ (getCachedToolsResult(lsrv).result = Undef)'
             ELSE /\ lpc = "inGetServerInfo"
                  /\ lres'.value = List(CatalogOf(lsrv))
                  /\ CatalogStored(lsrv)'
       /\ (LoadMissRuns /\ ~(LoadMissEnds /\ ~outcome.threw)) =>
             \A f \in FileNames : files'[f] = files[f]]_vars

\* C34 (amended): a loadTools that went to its server returns the catalog
\* when both session calls succeeded, and has then stored it with the current
\* time if caching is enabled and written nothing if caching is disabled;
\* when a session call threw it returns the empty list, writes nothing and
\* the next get for its server returns absent.
C34_MissStoresIffBothCyclesSucceed ==
    [][/\ LoadMissEnds =>
             IF outcome.threw
             THEN /\ lres'.value = List(<<>>)
                  /\ \A f \in FileNames : files'[f] = files[f]
                  /\ (getCachedToolsResult(lsrv).result = Undef)'
             ELSE /\ lpc = "inGetServerInfo"
                  /\ lres'.value = List(CatalogOf(lsrv))
                  /\ IF settings.cacheEnabled
                     THEN CatalogStored(lsrv)'
                     ELSE \A f \in FileNames : files'[f] = files[f]
       /\ (LoadMissRuns /\ ~(LoadMissEnds /\ ~outcome.threw)) =>
             \A f \in FileNames : files'[f] = files[f]]_vars

\* C34 witness: with caching disabled, the load for a_b went to its server,
\* both session calls succeeded, it returned a_b's tools and stored nothing
C34_Witness ==
    /\ lpc = "done"
    /\ lop = "loadTools"
    /\ lsrv = SrvUnder
    /\ ~settings.cacheEnabled
    /\ ~outcome.threw
    /\ ~lres.hit
    /\ lres.value = List(<<"opB", "opA">>)
    /\ \A f \in FileNames : files[f] = NoFile

\* the load for a_b failed in getServerInfo, after its getTools had
\* succeeded, and left no entry; the load before it had stored c-d's catalog
C34_FailureAfterSuccess ==
    /\ lpc = "done"
    /\ lop = "loadTools"
    /\ lsrv = SrvUnder
    /\ outcome.threw
    /\ wcOp = "getServerInfo"
    /\ lres.value = List(<<>>)
    /\ files[getCacheFilePath(SrvUnder)] = NoFile
    /\ files[getCacheFilePath(SrvDash)].kind = "object"

----------------------------------------------------------------------------
\* Further properties of the clients (checked under Spec).

\* C35 (as claimed): a connected client holds a transport, the one whose
\* handshake last succeeded, and keeps it while it stays connected; once
\* close has returned the client is not connected and holds no transport.
C35_ConnectedHoldsItsTransport ==
    [][/\ connected' => transport' # 0
       /\ (connected /\ connected') => transport' = transport
       /\ (~connected /\ connected') =>
             /\ lastCall'.method = "connect"
             /\ lastCall'.made # <<>>
             /\ transport' = lastCall'.made[Len(lastCall'.made)]
             /\ lastCall'.causes[Len(lastCall'.causes)] = CauseOk
       /\ (lastCall'.method = "close" /\ ~lastCall'.completion.threw) =>
             ~connected' /\ transport' = 0]_vars

----------------------------------------------------------------------------
\* Further properties of the tool cache (checked under CacheSpec).

\* C36: with caching disabled, a get for any server returns absent and leaves
\* every file of the cache directory as it was, whatever the files hold
C36_DisabledGetTouchesNothing ==
    [][\A srv \in Servers :
          (Get(srv) /\ ~settings.cacheEnabled) =>
              /\ lastCache'.result = Undef
              /\ \A f \in FileNames : files'[f] = files[f]]_vars

\* C36 witness: an entry put while caching was enabled was read, expired,
\* with caching disabled; the get returned absent and the entry is still there
C36_Witness ==
    /\ lastCache.op = "get"
    /\ ~lastCache.enabled
    /\ lastCache.found = Stringify(Epoch, <<"opA">>, "info")
    /\ lastCache.at - Epoch >= lastCache.ttl
    /\ lastCache.result = Undef
    /\ files[lastCache.path] = lastCache.found

\* a corrupt entry was read with caching disabled and is still there
C36_CorruptEntryKept ==
    /\ lastCache.op = "get"
    /\ ~lastCache.enabled
    /\ lastCache.found = Garbage
    /\ lastCache.result = Undef
    /\ files[lastCache.path] = Garbage

----------------------------------------------------------------------------
\* Further properties of the tool command (checked under LoadSpec).

\* execute has returned a result for an error it caught
ExecuteCaught ==
    /\ lpc = "done"
    /\ lop = "execute"
    /\ (outcome.threw \/ lsessions = 0)

\* C37 (as claimed): execute never throws; an error of the session's making,
\* of its connect or of its call becomes a result with success = false and
\* the error's message, and the session's close has run before execute
\* returns that result.
C37_ExecuteConvertsEveryError_AsClaimed ==
    /\ (lpc = "done" /\ lop = "execute") => ~lres.raised
    /\ ExecuteCaught =>
          /\ lres.value = Bool(FALSE)
          /\ lres.warning # <<>>
          /\ lres.warning =
                (IF lsessions = 0 THEN MsgUnknownTransport ELSE outcome.error.message)
          /\ log # <<>> /\ log[Len(log)] = "close"

\* C37 (amended): execute never throws; an error of the session's making, of
\* its connect or of its call becomes a result with success = false and the
\* error's message; if the session was made, its close has run before execute
\* returns that result, and if making it threw, nothing was connected or
\* closed.
C37_ExecuteConvertsEveryError ==
    /\ (lpc = "done" /\ lop = "execute") => ~lres.raised
    /\ ExecuteCaught =>
          /\ lres.value = Bool(FALSE)
          /\ lres.warning # <<>>
          /\ lres.warning =
                (IF lsessions = 0 THEN MsgUnknownTransport ELSE outcome.error.message)
          /\ IF lsessions = 0
             THEN log = <<>> /\ pc = "idle"
             ELSE log # <<>> /\ log[Len(log)] = "close"

\* C37 witness: the call of a tool of a_b was sent and failed, the session
\* was closed, and execute returned the failure's message with success = false
C37_Witness ==
    /\ lpc = "done"
    /\ lop = "execute"
    /\ lsrv = SrvUnder
    /\ lsessions = 1
    /\ outcome.threw
    /\ log = <<"connect", "connected", "operation", "operationThrew", "close">>
    /\ lres = LoadResult(FALSE, Bool(FALSE), FALSE, MsgTimedOut)

\* the configuration of a_b had an unknown transport: execute returned the
\* error of createMcpClient and no session was made
C37_NoSessionToClose ==
    /\ lpc = "done"
    /\ lop = "execute"
    /\ lsrv = SrvUnder
    /\ lsessions = 0
    /\ log = <<>>
    /\ lres = LoadResult(FALSE, Bool(FALSE), FALSE, MsgUnknownTransport)

----------------------------------------------------------------------------
\* Properties of the server commands (checked under ConfigSpec).

\* the file the cache directory holds for the server, if any
EntryOf(name) ==
    IF getCacheFilePath(name) \in FileNames THEN files[getCacheFilePath(name)] ELSE NoFile

\* C38 (as claimed): after a remove command that succeeded, the server is not
\* in the configuration, the cache directory holds no entry for it and a get
\* for it returns absent; a remove command for a name that is not in the
\* configuration fails and leaves the configuration and the cache directory
\* as they were.
C38_RemoveForgetsTheServer ==
    [][\A name \in Names :
          RemoveServer(name) =>
              /\ removal'.success =>
                    /\ name \notin configured'
                    /\ EntryOf(name)' = NoFile
                    /\ name \in Servers => (getCachedToolsResult(name).result = Undef)'
              /\ name \notin configured =>
                    /\ ~removal'.success
                    /\ configured' = configured
                    /\ \A f \in FileNames : files'[f] = files[f]]_vars

====
